---- MODULE Spec2Model ----
(***************************************************************************)
(* A model of four parts of the migration engine:                          *)
(*   - the markMigrationRolledBack command (migration-engine/core),        *)
(*   - the MySQL native type registry and validator (datamodel connector), *)
(*   - the MySQL SQL renderer (sql-migration-connector),                   *)
(*   - the typed DDL statements of sql-ddl.                                *)
(* SQL text is modelled as a sequence of tokens: a keyword fragment is one *)
(* token, the content of an identifier or of a literal is one token per    *)
(* character, so that truncation, quoting and escaping act on characters.  *)
(***************************************************************************)
EXTENDS Integers, Sequences, FiniteSets, TLC

VARIABLES
    history,        \* the migrations table: record id -> migration record
    pc,             \* position of the rollback command
    input,          \* MarkMigrationRolledBackInput.migration_name
    listed,         \* all_migrations, as returned by list_migrations
    to_roll_back,   \* the records the loop has still to mark (ids, in order)
    calls,          \* ids passed to mark_migration_rolled_back_by_id by this run
    seen,           \* for each of these calls, the record as the table held it then
    result,         \* what execute returned
    runs,           \* number of completed runs of the command
    call            \* the last call of a pure operation: its name, input, output

vars == <<history, pc, input, listed, to_roll_back, calls, seen, result, runs, call>>
rollbackVars == <<history, pc, input, listed, to_roll_back, calls, seen, result, runs>>

NoCall == [op |-> "none"]

----------------------------------------------------------------------------
(* Generic helpers on sequences.                                           *)

RECURSIVE Join(_, _)
\* IteratorJoin / slice::join: the items separated by sep (all token sequences).
Join(ss, sep) ==
    IF ss = <<>> THEN <<>>
    ELSE IF Len(ss) = 1 THEN Head(ss)
    ELSE Head(ss) \o sep \o Join(Tail(ss), sep)

Range(s) == {s[i] : i \in DOMAIN s}

\* All sequences over S of length 0..n.
SeqsUpTo(S, n) == UNION {[1..k -> S] : k \in 0..n}

----------------------------------------------------------------------------
(* markMigrationRolledBack                                                 *)

MaxRecords == 3
MaxRuns == 2
MigrationNames == {"m1", "m2"}

\* A MigrationRecord, reduced to the fields execute reads.
MigrationRecords ==
    [id : 1..MaxRecords, migration_name : MigrationNames,
     finished_at : BOOLEAN, rolled_back_at : BOOLEAN]

\* The possible contents of the migrations table: n records with ids 1..n.
Histories ==
    UNION {{h \in [1..n -> MigrationRecords] : \A i \in 1..n : h[i].id = i}
           : n \in 0..MaxRecords}

\* persistence.list_migrations(): the records, in id order.
list_migrations(h) == [i \in 1..Len(h) |-> h[i]]

\* persistence.mark_migration_rolled_back_by_id(id): sets rolled_back_at.
mark_migration_rolled_back_by_id(h, id) ==
    [i \in DOMAIN h |-> IF h[i].id = id THEN [h[i] EXCEPT !.rolled_back_at = TRUE]
                        ELSE h[i]]

\* A variant of relevant_migrations that forgets the filter on the name.
relevant_migrations_unfiltered(all_migrations, name) == all_migrations

RECURSIVE relevant_migrations(_, _)
\* all_migrations filtered on migration_name == input.migration_name, in order.
relevant_migrations(all_migrations, name) ==
    IF all_migrations = <<>> THEN <<>>
    ELSE (IF Head(all_migrations).migration_name = name
          THEN <<Head(all_migrations)>> ELSE <<>>)
         \o relevant_migrations(Tail(all_migrations), name)

RECURSIVE migrations_to_roll_back_unfinished(_)
\* A variant of migrations_to_roll_back that forgets rolled_back_at.
migrations_to_roll_back_unfinished(relevant) ==
    IF relevant = <<>> THEN <<>>
    ELSE (IF ~Head(relevant).finished_at THEN <<Head(relevant)>> ELSE <<>>)
         \o migrations_to_roll_back_unfinished(Tail(relevant))

RECURSIVE migrations_to_roll_back(_)
\* The relevant records with neither finished_at nor rolled_back_at, in order.
migrations_to_roll_back(relevant) ==
    IF relevant = <<>> THEN <<>>
    ELSE (IF ~Head(relevant).finished_at /\ ~Head(relevant).rolled_back_at
          THEN <<Head(relevant)>> ELSE <<>>)
         \o migrations_to_roll_back(Tail(relevant))

\* A variant of all_finished that takes a rolled back record for a finished
\* one.
all_finished_or_rolled_back(relevant) ==
    \A i \in DOMAIN relevant : relevant[i].finished_at \/ relevant[i].rolled_back_at

\* A variant of all_finished that reads rolled_back_at instead of finished_at.
all_finished_wrong_field(relevant) ==
    \A i \in DOMAIN relevant : relevant[i].rolled_back_at

\* relevant_migrations.iter().all(|migration| migration.finished_at.is_some())
all_finished(relevant) == \A i \in DOMAIN relevant : relevant[i].finished_at

\* execute up to its first call of mark_migration_rolled_back_by_id: the
\* listing, the filter on the name and the two early returns.
RbExecute(name) ==
    /\ pc = "idle"
    /\ runs < MaxRuns
    /\ LET all_migrations == list_migrations(history)
           relevant == relevant_migrations(all_migrations, name)
       IN /\ input' = name
          /\ listed' = all_migrations
          /\ calls' = <<>>
          /\ seen' = <<>>
          /\ IF relevant = <<>>
             THEN /\ result' = [ok |-> FALSE, error |-> "CannotRollBackUnappliedMigration",
                                migration_name |-> name]
                  /\ pc' = "done"
                  /\ to_roll_back' = <<>>
             ELSE IF all_finished(relevant)
             THEN /\ result' = [ok |-> FALSE, error |-> "CannotRollBackSucceededMigration",
                                migration_name |-> name]
                  /\ pc' = "done"
                  /\ to_roll_back' = <<>>
             ELSE /\ result' = [ok |-> FALSE, error |-> "running", migration_name |-> name]
                  /\ pc' = "marking"
                  /\ to_roll_back' = [i \in DOMAIN migrations_to_roll_back(relevant) |->
                                        migrations_to_roll_back(relevant)[i].id]
    /\ UNCHANGED <<history, runs, call>>

\* A variant of RbMark that reads the record again and skips it when it
\* has been finished or rolled back since the listing.
RbMark_reading_again ==
    /\ pc = "marking"
    /\ to_roll_back # <<>>
    /\ IF history[Head(to_roll_back)].finished_at \/ history[Head(to_roll_back)].rolled_back_at
       THEN UNCHANGED <<calls, seen, history>>
       ELSE /\ calls' = Append(calls, Head(to_roll_back))
            /\ seen' = Append(seen, history[Head(to_roll_back)])
            /\ history' = mark_migration_rolled_back_by_id(history, Head(to_roll_back))
    /\ to_roll_back' = Tail(to_roll_back)
    /\ UNCHANGED <<pc, input, listed, result, runs, call>>

\* One iteration of the loop: the call for the next record to roll back.
RbMark ==
    /\ pc = "marking"
    /\ to_roll_back # <<>>
    /\ calls' = Append(calls, Head(to_roll_back))
    /\ seen' = Append(seen, history[Head(to_roll_back)])
    /\ history' = mark_migration_rolled_back_by_id(history, Head(to_roll_back))
    /\ to_roll_back' = Tail(to_roll_back)
    /\ UNCHANGED <<pc, input, listed, result, runs, call>>

\* The loop is over: Ok(Default::default()).
RbReturn ==
    /\ pc = "marking"
    /\ to_roll_back = <<>>
    /\ result' = [ok |-> TRUE, error |-> "none", migration_name |-> input]
    /\ pc' = "done"
    /\ UNCHANGED <<history, input, listed, to_roll_back, calls, seen, runs, call>>

\* The caller takes the result; the command may be issued again.
RbFinish ==
    /\ pc = "done"
    /\ pc' = "idle"
    /\ runs' = runs + 1
    /\ UNCHANGED <<history, input, listed, to_roll_back, calls, seen, result, call>>

InitRollback ==
    /\ history \in Histories
    /\ pc = "idle"
    /\ input = "m1"
    /\ listed = <<>>
    /\ to_roll_back = <<>>
    /\ calls = <<>>
    /\ seen = <<>>
    /\ result = [ok |-> FALSE, error |-> "running", migration_name |-> "m1"]
    /\ runs = 0
    /\ call = NoCall

NextRollback ==
    \/ \E name \in MigrationNames : RbExecute(name)
    \/ RbMark
    \/ RbReturn
    \/ RbFinish

SpecRollback == InitRollback /\ [][NextRollback]_vars

(* Claims about the command, in runs nothing else interferes with.         *)

\* The records of the listing that carry the input name.
NamedInput == {i \in DOMAIN listed : listed[i].migration_name = input}
\* Those of them that are neither finished nor rolled back.
Pending == {i \in NamedInput : ~listed[i].finished_at /\ ~listed[i].rolled_back_at}
CalledIds == Range(calls)

\* C1: when the history holds a record named N with neither finished_at nor
\* rolled_back_at, the command succeeds and has called
\* mark_migration_rolled_back_by_id exactly once for each such record and
\* for no other record.
C1_MarksExactlyPending ==
    (pc = "done" /\ Pending # {}) =>
        /\ result.ok
        /\ CalledIds = {listed[i].id : i \in Pending}
        /\ Len(calls) = Cardinality(Pending)

C1_Witness ==
    /\ pc = "done" /\ result.ok
    /\ Cardinality(Pending) = 2
    /\ \E i \in DOMAIN listed : i \notin Pending

\* C2: when no record of the history is named N, the command fails with
\* CannotRollBackUnappliedMigration carrying N and marks no record.
C2_UnappliedMigration ==
    (pc = "done" /\ NamedInput = {}) =>
        /\ result = [ok |-> FALSE, error |-> "CannotRollBackUnappliedMigration",
                     migration_name |-> input]
        /\ calls = <<>>
        /\ history = listed

C2_Witness ==
    /\ pc = "done" /\ NamedInput = {} /\ listed # <<>>
    /\ result.error = "CannotRollBackUnappliedMigration"

\* C3: when some record is named N and every record named N has a
\* finished_at, the command fails with CannotRollBackSucceededMigration
\* carrying N and marks no record.
C3_SucceededMigration ==
    (pc = "done" /\ NamedInput # {} /\ \A i \in NamedInput : listed[i].finished_at) =>
        /\ result = [ok |-> FALSE, error |-> "CannotRollBackSucceededMigration",
                     migration_name |-> input]
        /\ calls = <<>>
        /\ history = listed

C3_Witness ==
    /\ pc = "done" /\ Cardinality(NamedInput) = 2
    /\ \A i \in NamedInput : listed[i].finished_at
    /\ result.error = "CannotRollBackSucceededMigration"

----------------------------------------------------------------------------
(* The MySQL datamodel connector: native type registry and validator.      *)

MaxArg == 67        \* precisions and lengths 0..MaxArg are enumerated
MaxScaleArg == 32   \* scales 0..MaxScaleArg are enumerated
MaxParseArgs == 3   \* longest argument list given to parse_native_type

\* The digits of u32::MAX, 4294967295. The values themselves are integers
\* of the model checker, which end at 2^31 - 1; LargeArg stands for the
\* large arguments and is the largest one enumerated.
U32MaxDigits == <<"4", "2", "9", "4", "9", "6", "7", "2", "9", "5">>
LargeArg == 2000000000

DigitChars == <<"0", "1", "2", "3", "4", "5", "6", "7", "8", "9">>

RECURSIVE to_string(_)
\* u32::to_string: the decimal digits, most significant first.
to_string(n) ==
    IF n < 10 THEN <<DigitChars[n + 1]>>
    ELSE to_string(n \div 10) \o <<DigitChars[(n % 10) + 1]>>

DigitValue(c) == CHOOSE d \in 0..9 : DigitChars[d + 1] = c
IsDigit(c) == \E d \in 0..9 : DigitChars[d + 1] = c

RECURSIVE strip_zeros(_)
strip_zeros(str) ==
    IF str # <<>> /\ Head(str) = "0" THEN strip_zeros(Tail(str)) ELSE str

RECURSIVE digits_greater(_, _)
\* For digit strings of one length: a > b.
digits_greater(a, b) ==
    IF a = <<>> THEN FALSE
    ELSE IF DigitValue(Head(a)) # DigitValue(Head(b))
    THEN DigitValue(Head(a)) > DigitValue(Head(b))
    ELSE digits_greater(Tail(a), Tail(b))

\* The number a digit string writes is above u32::MAX (PosOverflow).
exceeds_u32(digits) ==
    LET significant == strip_zeros(digits)
    IN \/ Len(significant) > Len(U32MaxDigits)
       \/ /\ Len(significant) = Len(U32MaxDigits)
          /\ digits_greater(significant, U32MaxDigits)

RECURSIVE digits_value(_, _)
\* The value of a digit string, accumulated left to right.
digits_value(digits, acc) ==
    IF digits = <<>> THEN acc
    ELSE digits_value(Tail(digits), acc * 10 + DigitValue(Head(digits)))

\* str::parse::<u32>: an optional leading "+", then at least one digit, all
\* digits, and a value of at most u32::MAX.
parse_u32(str) ==
    LET digits == IF str # <<>> /\ Head(str) = "+" THEN Tail(str) ELSE str
    IN IF digits = <<>> THEN [ok |-> FALSE]
       ELSE IF \E i \in DOMAIN digits : ~IsDigit(digits[i]) THEN [ok |-> FALSE]
       ELSE IF exceeds_u32(digits) THEN [ok |-> FALSE]
       ELSE [ok |-> TRUE, value |-> digits_value(digits, 0)]

\* helper::parse_u32_arguments: every argument parsed, or the first failure.
parse_u32_arguments(args) ==
    IF \E i \in DOMAIN args : ~parse_u32(args[i]).ok
    THEN [ok |-> FALSE, error |-> "ValueParserError"]
    ELSE [ok |-> TRUE, values |-> [i \in DOMAIN args |-> parse_u32(args[i]).value]]

ArgumentCountMismatch(type_name, required, given) ==
    [ok |-> FALSE, error |-> "ArgumentCountMisMatchError", native_type |-> type_name,
     required_count |-> required, given_count |-> given]

\* helper::parse_one_u32: exactly one argument.
parse_one_u32(args, type_name) ==
    LET parsed == parse_u32_arguments(args)
    IN IF ~parsed.ok THEN parsed
       ELSE IF Len(parsed.values) = 1 THEN [ok |-> TRUE, payload |-> parsed.values]
       ELSE ArgumentCountMismatch(type_name, 1, Len(args))

\* helper::parse_one_opt_u32: no argument (None) or one (Some(x)).
parse_one_opt_u32(args, type_name) ==
    LET parsed == parse_u32_arguments(args)
    IN IF ~parsed.ok THEN parsed
       ELSE IF Len(parsed.values) <= 1 THEN [ok |-> TRUE, payload |-> parsed.values]
       ELSE ArgumentCountMismatch(type_name, 1, Len(args))

\* helper::parse_two_opt_u32: no argument (None) or two (Some((x, y))).
parse_two_opt_u32(args, type_name) ==
    LET parsed == parse_u32_arguments(args)
    IN IF ~parsed.ok THEN parsed
       ELSE IF Len(parsed.values) \in {0, 2} THEN [ok |-> TRUE, payload |-> parsed.values]
       ELSE ArgumentCountMismatch(type_name, 2, Len(args))

\* helper::args_vec_from_opt: Some((x, y)) gives the two strings, None none.
args_vec_from_opt(payload) ==
    IF payload = <<>> THEN <<>> ELSE <<to_string(payload[1]), to_string(payload[2])>>

\* arg_vec_from_opt, local to introspect_native_type: Some(arg) gives its
\* string, None none.
arg_vec_from_opt(payload) ==
    IF payload = <<>> THEN <<>> ELSE <<to_string(payload[1])>>

(* A MySqlType value is [variant, payload]: the payload is <<>> for a unit  *)
(* variant and for None, <<x>> for x and Some(x), <<x, y>> for Some((x, y)).*)
MySqlType(variant, payload) == [variant |-> variant, payload |-> payload]

UnitVariants ==
    {"Int", "UnsignedInt", "SmallInt", "UnsignedSmallInt", "TinyInt", "UnsignedTinyInt",
     "MediumInt", "UnsignedMediumInt", "BigInt", "UnsignedBigInt", "Float", "Double",
     "TinyBlob", "Blob", "MediumBlob", "LongBlob", "TinyText", "Text", "MediumText",
     "LongText", "Date", "Year", "JSON"}
TwoOptVariants == {"Decimal", "Numeric"}
OneVariants == {"Bit", "Char", "VarChar", "Binary", "VarBinary"}
OneOptVariants == {"Time", "DateTime", "Timestamp"}
Variants == UnitVariants \cup TwoOptVariants \cup OneVariants \cup OneOptVariants

\* serde_json::to_value of a MySqlType: a unit variant is its name, any
\* other variant an object of one key, with null for None.
serialize_native_type(native_type) ==
    IF native_type.variant \in UnitVariants THEN <<"String", native_type.variant>>
    ELSE IF native_type.payload = <<>> THEN <<"Object", native_type.variant, "null">>
    ELSE <<"Object", native_type.variant, "array", native_type.payload>>

\* serde_json::from_value::<MySqlType>, on the values to_value produces.
deserialize_native_type(json) ==
    IF json[1] = "String" THEN MySqlType(json[2], <<>>)
    ELSE IF json[3] = "null" THEN MySqlType(json[2], <<>>)
    ELSE MySqlType(json[2], json[4])

\* NativeTypeInstance::new(name, args, &native_type)
NativeTypeInstance(name, args, native_type) ==
    [name |-> name, args |-> args,
     serialized_native_type |-> serialize_native_type(native_type)]

(* The constructors registered by MySqlDatamodelConnector::new, in order.   *)
without_args(name, scalars) ==
    [name |-> name, number_of_args |-> 0, number_of_optional_args |-> 0,
     prisma_types |-> scalars]
with_args(name, n, scalars) ==
    [name |-> name, number_of_args |-> n, number_of_optional_args |-> 0,
     prisma_types |-> scalars]
with_optional_args(name, n, scalars) ==
    [name |-> name, number_of_args |-> 0, number_of_optional_args |-> n,
     prisma_types |-> scalars]

constructors ==
    << without_args("Int", <<"Int">>),
       without_args("UnsignedInt", <<"Int">>),
       without_args("SmallInt", <<"Int">>),
       without_args("UnsignedSmallInt", <<"Int">>),
       without_args("TinyInt", <<"Boolean", "Int">>),
       without_args("UnsignedTinyInt", <<"Int">>),
       without_args("MediumInt", <<"Int">>),
       without_args("UnsignedMediumInt", <<"Int">>),
       without_args("BigInt", <<"BigInt">>),
       without_args("UnsignedBigInt", <<"BigInt">>),
       with_optional_args("Decimal", 2, <<"Decimal">>),
       with_optional_args("Numeric", 2, <<"Decimal">>),
       without_args("Float", <<"Float">>),
       without_args("Double", <<"Float">>),
       with_args("Bit", 1, <<"Bytes">>),
       with_args("Char", 1, <<"String">>),
       with_args("VarChar", 1, <<"String">>),
       with_args("Binary", 1, <<"Bytes">>),
       with_args("VarBinary", 1, <<"Bytes">>),
       without_args("TinyBlob", <<"Bytes">>),
       without_args("Blob", <<"Bytes">>),
       without_args("MediumBlob", <<"Bytes">>),
       without_args("LongBlob", <<"Bytes">>),
       without_args("TinyText", <<"String">>),
       without_args("Text", <<"String">>),
       without_args("MediumText", <<"String">>),
       without_args("LongText", <<"String">>),
       without_args("Date", <<"DateTime">>),
       with_optional_args("Time", 1, <<"DateTime">>),
       with_optional_args("Datetime", 1, <<"DateTime">>),
       with_optional_args("Timestamp", 1, <<"DateTime">>),
       without_args("Year", <<"Int">>),
       without_args("JSON", <<"Json">>) >>

available_native_type_constructors == constructors
ConstructorNames == {constructors[i].name : i \in DOMAIN constructors}

\* Connector::find_native_type_constructor: the first constructor of that name.
find_native_type_constructor(name) ==
    IF \E i \in DOMAIN constructors : constructors[i].name = name
    THEN <<constructors[CHOOSE i \in DOMAIN constructors :
                /\ constructors[i].name = name
                /\ \A j \in 1..(i - 1) : constructors[j].name # name]>>
    ELSE <<>>

\* A variant of parse_arms in which the Numeric arm was copied from the
\* Decimal arm without changing the variant it builds.
parse_arms_numeric_as_decimal ==
    <<
       [name |-> "Int", variant |-> "Int", args |-> "none"],
       [name |-> "UnsignedInt", variant |-> "UnsignedInt", args |-> "none"],
       [name |-> "SmallInt", variant |-> "SmallInt", args |-> "none"],
       [name |-> "UnsignedSmallInt", variant |-> "UnsignedSmallInt", args |-> "none"],
       [name |-> "TinyInt", variant |-> "TinyInt", args |-> "none"],
       [name |-> "UnsignedTinyInt", variant |-> "UnsignedTinyInt", args |-> "none"],
       [name |-> "MediumInt", variant |-> "MediumInt", args |-> "none"],
       [name |-> "UnsignedMediumInt", variant |-> "UnsignedMediumInt", args |-> "none"],
       [name |-> "BigInt", variant |-> "BigInt", args |-> "none"],
       [name |-> "UnsignedBigInt", variant |-> "UnsignedBigInt", args |-> "none"],
       [name |-> "Decimal", variant |-> "Decimal", args |-> "two_opt_u32"],
       [name |-> "Numeric", variant |-> "Decimal", args |-> "two_opt_u32"],
       [name |-> "Float", variant |-> "Float", args |-> "none"],
       [name |-> "Double", variant |-> "Double", args |-> "none"],
       [name |-> "Bit", variant |-> "Bit", args |-> "one_u32"],
       [name |-> "Char", variant |-> "Char", args |-> "one_u32"],
       [name |-> "VarChar", variant |-> "VarChar", args |-> "one_u32"],
       [name |-> "Binary", variant |-> "Binary", args |-> "one_u32"],
       [name |-> "VarBinary", variant |-> "VarBinary", args |-> "one_u32"],
       [name |-> "TinyBlob", variant |-> "TinyBlob", args |-> "none"],
       [name |-> "Blob", variant |-> "Blob", args |-> "none"],
       [name |-> "MediumBlob", variant |-> "MediumBlob", args |-> "none"],
       [name |-> "LongBlob", variant |-> "LongBlob", args |-> "none"],
       [name |-> "TinyText", variant |-> "TinyText", args |-> "none"],
       [name |-> "Text", variant |-> "Text", args |-> "none"],
       [name |-> "MediumText", variant |-> "MediumText", args |-> "none"],
       [name |-> "LongText", variant |-> "LongText", args |-> "none"],
       [name |-> "Date", variant |-> "Date", args |-> "none"],
       [name |-> "Time", variant |-> "Time", args |-> "one_opt_u32"],
       [name |-> "Datetime", variant |-> "DateTime", args |-> "one_opt_u32"],
       [name |-> "Timestamp", variant |-> "Timestamp", args |-> "one_opt_u32"],
       [name |-> "Year", variant |-> "Year", args |-> "none"],
       [name |-> "JSON", variant |-> "JSON", args |-> "none"] >>

\* The arms of the match in parse_native_type, in order: the constructor
\* name matched, the MySqlType variant built, and the helper that parses the
\* arguments ("none": the arm does not read them).
parse_arms ==
    <<
       [name |-> "Int", variant |-> "Int", args |-> "none"],
       [name |-> "UnsignedInt", variant |-> "UnsignedInt", args |-> "none"],
       [name |-> "SmallInt", variant |-> "SmallInt", args |-> "none"],
       [name |-> "UnsignedSmallInt", variant |-> "UnsignedSmallInt", args |-> "none"],
       [name |-> "TinyInt", variant |-> "TinyInt", args |-> "none"],
       [name |-> "UnsignedTinyInt", variant |-> "UnsignedTinyInt", args |-> "none"],
       [name |-> "MediumInt", variant |-> "MediumInt", args |-> "none"],
       [name |-> "UnsignedMediumInt", variant |-> "UnsignedMediumInt", args |-> "none"],
       [name |-> "BigInt", variant |-> "BigInt", args |-> "none"],
       [name |-> "UnsignedBigInt", variant |-> "UnsignedBigInt", args |-> "none"],
       [name |-> "Decimal", variant |-> "Decimal", args |-> "two_opt_u32"],
       [name |-> "Numeric", variant |-> "Numeric", args |-> "two_opt_u32"],
       [name |-> "Float", variant |-> "Float", args |-> "none"],
       [name |-> "Double", variant |-> "Double", args |-> "none"],
       [name |-> "Bit", variant |-> "Bit", args |-> "one_u32"],
       [name |-> "Char", variant |-> "Char", args |-> "one_u32"],
       [name |-> "VarChar", variant |-> "VarChar", args |-> "one_u32"],
       [name |-> "Binary", variant |-> "Binary", args |-> "one_u32"],
       [name |-> "VarBinary", variant |-> "VarBinary", args |-> "one_u32"],
       [name |-> "TinyBlob", variant |-> "TinyBlob", args |-> "none"],
       [name |-> "Blob", variant |-> "Blob", args |-> "none"],
       [name |-> "MediumBlob", variant |-> "MediumBlob", args |-> "none"],
       [name |-> "LongBlob", variant |-> "LongBlob", args |-> "none"],
       [name |-> "TinyText", variant |-> "TinyText", args |-> "none"],
       [name |-> "Text", variant |-> "Text", args |-> "none"],
       [name |-> "MediumText", variant |-> "MediumText", args |-> "none"],
       [name |-> "LongText", variant |-> "LongText", args |-> "none"],
       [name |-> "Date", variant |-> "Date", args |-> "none"],
       [name |-> "Time", variant |-> "Time", args |-> "one_opt_u32"],
       [name |-> "Datetime", variant |-> "DateTime", args |-> "one_opt_u32"],
       [name |-> "Timestamp", variant |-> "Timestamp", args |-> "one_opt_u32"],
       [name |-> "Year", variant |-> "Year", args |-> "none"],
       [name |-> "JSON", variant |-> "JSON", args |-> "none"] >>

\* The arms of the match in introspect_native_type, in order: the variant
\* matched, the constructor name given and the way the argument strings are
\* built ("none": vec![]).
introspect_arms ==
    <<
       [variant |-> "Int", name |-> "Int", args |-> "none"],
       [variant |-> "UnsignedInt", name |-> "UnsignedInt", args |-> "none"],
       [variant |-> "SmallInt", name |-> "SmallInt", args |-> "none"],
       [variant |-> "UnsignedSmallInt", name |-> "UnsignedSmallInt", args |-> "none"],
       [variant |-> "TinyInt", name |-> "TinyInt", args |-> "none"],
       [variant |-> "UnsignedTinyInt", name |-> "UnsignedTinyInt", args |-> "none"],
       [variant |-> "MediumInt", name |-> "MediumInt", args |-> "none"],
       [variant |-> "UnsignedMediumInt", name |-> "UnsignedMediumInt", args |-> "none"],
       [variant |-> "BigInt", name |-> "BigInt", args |-> "none"],
       [variant |-> "UnsignedBigInt", name |-> "UnsignedBigInt", args |-> "none"],
       [variant |-> "Decimal", name |-> "Decimal", args |-> "args_vec_from_opt"],
       [variant |-> "Numeric", name |-> "Numeric", args |-> "args_vec_from_opt"],
       [variant |-> "Float", name |-> "Float", args |-> "none"],
       [variant |-> "Double", name |-> "Double", args |-> "none"],
       [variant |-> "Bit", name |-> "Bit", args |-> "to_string"],
       [variant |-> "Char", name |-> "Char", args |-> "to_string"],
       [variant |-> "VarChar", name |-> "VarChar", args |-> "to_string"],
       [variant |-> "Binary", name |-> "Binary", args |-> "to_string"],
       [variant |-> "VarBinary", name |-> "VarBinary", args |-> "to_string"],
       [variant |-> "TinyBlob", name |-> "TinyBlob", args |-> "none"],
       [variant |-> "Blob", name |-> "Blob", args |-> "none"],
       [variant |-> "MediumBlob", name |-> "MediumBlob", args |-> "none"],
       [variant |-> "LongBlob", name |-> "LongBlob", args |-> "none"],
       [variant |-> "TinyText", name |-> "TinyText", args |-> "none"],
       [variant |-> "Text", name |-> "Text", args |-> "none"],
       [variant |-> "MediumText", name |-> "MediumText", args |-> "none"],
       [variant |-> "LongText", name |-> "LongText", args |-> "none"],
       [variant |-> "Date", name |-> "Date", args |-> "none"],
       [variant |-> "Time", name |-> "Time", args |-> "arg_vec_from_opt"],
       [variant |-> "DateTime", name |-> "Datetime", args |-> "arg_vec_from_opt"],
       [variant |-> "Timestamp", name |-> "Timestamp", args |-> "arg_vec_from_opt"],
       [variant |-> "Year", name |-> "Year", args |-> "none"],
       [variant |-> "JSON", name |-> "JSON", args |-> "none"] >>

\* The first element of a table of arms that satisfies the key, as <<arm>>,
\* or <<>> when there is none (the fallback arm).
first_arm(table, field, key) ==
    IF \E i \in DOMAIN table : table[i][field] = key
    THEN <<table[CHOOSE i \in DOMAIN table :
                /\ table[i][field] = key
                /\ \A j \in 1..(i - 1) : table[j][field] # key]>>
    ELSE <<>>

parse_arm_payload(kind, args, name) ==
    CASE kind = "two_opt_u32" -> parse_two_opt_u32(args, name)
      [] kind = "one_u32" -> parse_one_u32(args, name)
      [] kind = "one_opt_u32" -> parse_one_opt_u32(args, name)
      [] OTHER -> [ok |-> TRUE, payload |-> <<>>]

introspect_arm_args(kind, payload) ==
    CASE kind = "args_vec_from_opt" -> args_vec_from_opt(payload)
      [] kind = "arg_vec_from_opt" -> arg_vec_from_opt(payload)
      [] kind = "to_string" -> <<to_string(payload[1])>>
      [] OTHER -> <<>>

\* parse_native_type: "panic" is the unreachable!() of the fallback arm.
parse_native_type(name, args) ==
    LET arm == first_arm(parse_arms, "name", name)
    IN IF arm = <<>> THEN [ok |-> FALSE, error |-> "panic"]
       ELSE LET parsed == parse_arm_payload(arm[1].args, args, name)
            IN IF ~parsed.ok THEN parsed
               ELSE [ok |-> TRUE,
                     instance |-> NativeTypeInstance(name, args,
                                      MySqlType(arm[1].variant, parsed.payload))]

\* A variant of introspect_native_type that looks the constructor up under
\* the name of the variant.
introspect_native_type_by_variant_name(json) ==
    LET native_type == deserialize_native_type(json)
        arm == first_arm(introspect_arms, "variant", native_type.variant)
        constructor_name == native_type.variant
        args == introspect_arm_args(arm[1].args, native_type.payload)
        found == find_native_type_constructor(constructor_name)
    IN IF found # <<>>
       THEN [ok |-> TRUE, instance |-> NativeTypeInstance(found[1].name, args, native_type)]
       ELSE [ok |-> FALSE, error |-> "NativeTypeNameUnknown",
             native_type |-> constructor_name, connector_name |-> "Mysql"]

\* introspect_native_type: the match is exhaustive over the variants.
introspect_native_type(json) ==
    LET native_type == deserialize_native_type(json)
        arm == first_arm(introspect_arms, "variant", native_type.variant)
        constructor_name == arm[1].name
        args == introspect_arm_args(arm[1].args, native_type.payload)
        found == find_native_type_constructor(constructor_name)
    IN IF found # <<>>
       THEN [ok |-> TRUE, instance |-> NativeTypeInstance(found[1].name, args, native_type)]
       ELSE [ok |-> FALSE, error |-> "NativeTypeNameUnknown",
             native_type |-> constructor_name, connector_name |-> "Mysql"]

NATIVE_TYPES_THAT_CAN_NOT_BE_USED_IN_KEY_SPECIFICATION ==
    <<"Text", "LongText", "MediumText", "TinyText",
      "Blob", "TinyBlob", "MediumBlob", "LongBlob">>

\* slice::contains on the list above.
can_not_be_used_in_key_specification(native_type_name) ==
    native_type_name \in Range(NATIVE_TYPES_THAT_CAN_NOT_BE_USED_IN_KEY_SPECIFICATION)

Ok == [ok |-> TRUE]

\* The ConnectorError constructors validate_field and validate_model use.
ConnectorError(kind, message, native_type_name, connector_name) ==
    [ok |-> FALSE, error |-> kind, message |-> message,
     native_type |-> native_type_name, connector_name |-> connector_name]
new_scale_larger_than_precision_error(name, connector_name) ==
    ConnectorError("ScaleLargerThanPrecisionError", "", name, connector_name)
new_argument_m_out_of_range_error(message, name, connector_name) ==
    ConnectorError("ArgumentOutOfRangeError", message, name, connector_name)
new_incompatible_native_type_with_unique(name, connector_name) ==
    ConnectorError("IncompatibleNativeTypeWithUniqueAttribute", "", name, connector_name)
new_incompatible_native_type_with_id(name, connector_name) ==
    ConnectorError("IncompatibleNativeTypeWithIdAttribute", "", name, connector_name)
new_incompatible_native_type_with_index(name, connector_name) ==
    ConnectorError("IncompatibleNativeTypeWithIndexAttribute", "", name, connector_name)

(* A field is [field_type, is_unique, is_id]; its type is                   *)
(* [kind |-> "NativeType", scalar_type, instance] or [kind |-> "Base", ..]. *)
NativeField(scalar_type, instance, is_unique, is_id) ==
    [field_type |-> [kind |-> "NativeType", scalar_type |-> scalar_type,
                     instance |-> instance],
     is_unique |-> is_unique, is_id |-> is_id]
BaseField(scalar_type, is_unique, is_id) ==
    [field_type |-> [kind |-> "Base", scalar_type |-> scalar_type],
     is_unique |-> is_unique, is_id |-> is_id]

\* The first two match statements of validate_field with the test of the
\* precision against 65 left out.
argument_bounds_error_no_precision_check(native_type, native_type_name) ==
    LET precision_and_scale ==
            IF native_type.variant \in {"Decimal", "Numeric"}
            THEN native_type.payload ELSE <<>>
        length == native_type.payload[1]
    IN IF precision_and_scale # <<>> /\ precision_and_scale[2] > precision_and_scale[1]
       THEN new_scale_larger_than_precision_error(native_type_name, "MySQL")
       ELSE IF precision_and_scale # <<>> /\ precision_and_scale[2] > 30
       THEN new_argument_m_out_of_range_error("Scale can range from 0 to 30.",
                                              native_type_name, "MySQL")
       ELSE IF native_type.variant = "Bit" /\ (length = 0 \/ length > 64)
       THEN new_argument_m_out_of_range_error("M can range from 1 to 64.",
                                              native_type_name, "MySQL")
       ELSE IF native_type.variant = "Char" /\ length > 255
       THEN new_argument_m_out_of_range_error("M can range from 0 to 255.",
                                              native_type_name, "MySQL")
       ELSE IF native_type.variant = "VarChar" /\ length > 65535
       THEN new_argument_m_out_of_range_error("M can range from 0 to 65,535.",
                                              native_type_name, "MySQL")
       ELSE Ok

\* The first two match statements of validate_field with the test of the
\* Bit length reduced to its upper bound.
argument_bounds_error_bit_zero_allowed(native_type, native_type_name) ==
    LET precision_and_scale ==
            IF native_type.variant \in {"Decimal", "Numeric"}
            THEN native_type.payload ELSE <<>>
        length == native_type.payload[1]
    IN IF precision_and_scale # <<>> /\ precision_and_scale[2] > precision_and_scale[1]
       THEN new_scale_larger_than_precision_error(native_type_name, "MySQL")
       ELSE IF precision_and_scale # <<>> /\ precision_and_scale[1] > 65
       THEN new_argument_m_out_of_range_error("Precision can range from 1 to 65.",
                                              native_type_name, "MySQL")
       ELSE IF precision_and_scale # <<>> /\ precision_and_scale[2] > 30
       THEN new_argument_m_out_of_range_error("Scale can range from 0 to 30.",
                                              native_type_name, "MySQL")
       ELSE IF native_type.variant = "Bit" /\ length > 64
       THEN new_argument_m_out_of_range_error("M can range from 1 to 64.",
                                              native_type_name, "MySQL")
       ELSE IF native_type.variant = "Char" /\ length > 255
       THEN new_argument_m_out_of_range_error("M can range from 0 to 255.",
                                              native_type_name, "MySQL")
       ELSE IF native_type.variant = "VarChar" /\ length > 65535
       THEN new_argument_m_out_of_range_error("M can range from 0 to 65,535.",
                                              native_type_name, "MySQL")
       ELSE Ok

\* A variant of argument_bounds_error where the arm of the precision comes
\* before the arm of the scale larger than the precision.
argument_bounds_error_precision_first(native_type, native_type_name) ==
    LET precision_and_scale ==
            IF native_type.variant \in {"Decimal", "Numeric"}
            THEN native_type.payload ELSE <<>>
        length == native_type.payload[1]
    IN IF precision_and_scale # <<>> /\ precision_and_scale[1] > 65
       THEN new_argument_m_out_of_range_error("Precision can range from 1 to 65.",
                                              native_type_name, "MySQL")
       ELSE IF precision_and_scale # <<>> /\ precision_and_scale[2] > precision_and_scale[1]
       THEN new_scale_larger_than_precision_error(native_type_name, "MySQL")
       ELSE IF precision_and_scale # <<>> /\ precision_and_scale[2] > 30
       THEN new_argument_m_out_of_range_error("Scale can range from 0 to 30.",
                                              native_type_name, "MySQL")
       ELSE IF native_type.variant = "Bit" /\ (length = 0 \/ length > 64)
       THEN new_argument_m_out_of_range_error("M can range from 1 to 64.",
                                              native_type_name, "MySQL")
       ELSE IF native_type.variant = "Char" /\ length > 255
       THEN new_argument_m_out_of_range_error("M can range from 0 to 255.",
                                              native_type_name, "MySQL")
       ELSE IF native_type.variant = "VarChar" /\ length > 65535
       THEN new_argument_m_out_of_range_error("M can range from 0 to 65,535.",
                                              native_type_name, "MySQL")
       ELSE Ok

\* The first two match statements of validate_field: the bounds of the
\* arguments of Decimal and Numeric, then of Bit, Char and VarChar. Ok when
\* neither returns.
argument_bounds_error(native_type, native_type_name) ==
    LET precision_and_scale ==
            IF native_type.variant \in {"Decimal", "Numeric"}
            THEN native_type.payload ELSE <<>>
        length == native_type.payload[1]
    IN IF precision_and_scale # <<>> /\ precision_and_scale[2] > precision_and_scale[1]
       THEN new_scale_larger_than_precision_error(native_type_name, "MySQL")
       ELSE IF precision_and_scale # <<>> /\ precision_and_scale[1] > 65
       THEN new_argument_m_out_of_range_error("Precision can range from 1 to 65.",
                                              native_type_name, "MySQL")
       ELSE IF precision_and_scale # <<>> /\ precision_and_scale[2] > 30
       THEN new_argument_m_out_of_range_error("Scale can range from 0 to 30.",
                                              native_type_name, "MySQL")
       ELSE IF native_type.variant = "Bit" /\ (length = 0 \/ length > 64)
       THEN new_argument_m_out_of_range_error("M can range from 1 to 64.",
                                              native_type_name, "MySQL")
       ELSE IF native_type.variant = "Char" /\ length > 255
       THEN new_argument_m_out_of_range_error("M can range from 0 to 255.",
                                              native_type_name, "MySQL")
       ELSE IF native_type.variant = "VarChar" /\ length > 65535
       THEN new_argument_m_out_of_range_error("M can range from 0 to 65,535.",
                                              native_type_name, "MySQL")
       ELSE Ok

\* The two tests that close validate_field: a unique field, then an id
\* field, of a type that can not be used in a key specification.
key_specification_error(field, native_type_name) ==
    IF field.is_unique /\ can_not_be_used_in_key_specification(native_type_name)
    THEN new_incompatible_native_type_with_unique(native_type_name, "MySQL")
    ELSE IF field.is_id /\ can_not_be_used_in_key_specification(native_type_name)
    THEN new_incompatible_native_type_with_id(native_type_name, "MySQL")
    ELSE Ok

validate_field(field) ==
    IF field.field_type.kind # "NativeType" THEN Ok
    ELSE LET native_type_instance == field.field_type.instance
             native_type_name == native_type_instance.name
             native_type ==
                 deserialize_native_type(native_type_instance.serialized_native_type)
             bounds == argument_bounds_error(native_type, native_type_name)
         IN IF ~bounds.ok THEN bounds
            ELSE key_specification_error(field, native_type_name)

(* A model is [fields, indices, id_fields]: fields maps a field name to the *)
(* field, an index definition is [fields, tpe], id_fields is a name list.   *)

\* The name of the native type of a field when it can not be used in a key
\* specification, as <<name>>; <<>> otherwise.
offending_native_type(model, field_name) ==
    LET f == model.fields[field_name]
    IN IF /\ f.field_type.kind = "NativeType"
          /\ can_not_be_used_in_key_specification(f.field_type.instance.name)
       THEN <<f.field_type.instance.name>>
       ELSE <<>>

RECURSIVE first_offending(_, _)
\* The first field of a list of names with such a type, as <<name of type>>.
first_offending(model, field_names) ==
    IF field_names = <<>> THEN <<>>
    ELSE IF offending_native_type(model, Head(field_names)) # <<>>
    THEN offending_native_type(model, Head(field_names))
    ELSE first_offending(model, Tail(field_names))

RECURSIVE validate_indices_unique_for_all(_, _)
\* A variant of validate_indices that reports every index as a unique one.
validate_indices_unique_for_all(model, indices) ==
    IF indices = <<>> THEN Ok
    ELSE LET hit == first_offending(model, Head(indices).fields)
         IN IF hit # <<>>
            THEN new_incompatible_native_type_with_unique(hit[1], "MySQL")
            ELSE validate_indices_unique_for_all(model, Tail(indices))

RECURSIVE validate_indices(_, _)
\* The loop over model.indices: the first index with an offending field
\* decides the error.
validate_indices(model, indices) ==
    IF indices = <<>> THEN Ok
    ELSE LET hit == first_offending(model, Head(indices).fields)
         IN IF hit # <<>>
            THEN IF Head(indices).tpe = "Unique"
                 THEN new_incompatible_native_type_with_unique(hit[1], "MySQL")
                 ELSE new_incompatible_native_type_with_index(hit[1], "MySQL")
            ELSE validate_indices(model, Tail(indices))

\* The loop over model.id_fields.
validate_id_fields(model) ==
    LET hit == first_offending(model, model.id_fields)
    IN IF hit # <<>> THEN new_incompatible_native_type_with_id(hit[1], "MySQL") ELSE Ok

\* A variant of validate_model that skips the loop over model.id_fields.
validate_model_indices_only(model) == validate_indices(model, model.indices)

validate_model(model) ==
    LET by_index == validate_indices(model, model.indices)
    IN IF ~by_index.ok THEN by_index ELSE validate_id_fields(model)

(* The inputs the connector is called with.                                 *)

PrecisionSamples == (0..MaxArg) \cup {LargeArg}
ScaleSamples == (0..MaxScaleArg) \cup {LargeArg}
LengthSamples == (0..MaxArg) \cup (254..257) \cup (65534..65537) \cup {LargeArg}
FractionSamples == {0, 3, 6}

\* The payloads a variant can carry.
PayloadsOf(variant) ==
    CASE variant \in TwoOptVariants ->
             {<<>>} \cup {<<p, sc>> : p \in PrecisionSamples, sc \in ScaleSamples}
      [] variant \in OneVariants -> {<<n>> : n \in LengthSamples}
      [] variant \in OneOptVariants -> {<<>>} \cup {<<n>> : n \in FractionSamples}
      [] OTHER -> {<<>>}

MySqlTypes == UNION {{MySqlType(v, pl) : pl \in PayloadsOf(v)} : v \in Variants}

\* The argument strings parse_native_type is given: numbers as the schema
\* writes them, and strings that are no u32.
ParseStrings ==
    {to_string(0), to_string(2), to_string(10), to_string(66), to_string(LargeArg),
     U32MaxDigits \o <<"0">>, <<"4", "2", "9", "4", "9", "6", "7", "2", "9", "6">>,
     <<"0", "7">>, <<"+", "5">>, <<"-", "1">>, <<"x">>, <<>>}
ParseArgLists ==
    UNION {[1..k -> ParseStrings] : k \in 0..(MaxParseArgs - 1)}
    \cup {[i \in 1..MaxParseArgs |-> IF i = 1 THEN a ELSE to_string(2)] : a \in ParseStrings}

\* The arguments of a payload as the schema writes them.
ArgsOf(payload) == [i \in DOMAIN payload |-> to_string(payload[i])]

\* The variant of the instances of a constructor name.
VariantOf(name) == first_arm(parse_arms, "name", name)[1].variant

ScalarOf(name) == find_native_type_constructor(name)[1].prisma_types[1]

MaxIndices == 2
FieldNames == {"a", "b"}
FieldNameLists == {<<"a">>, <<"b">>, <<"a", "b">>, <<"b", "a">>}
IndexDefinitions == [fields : FieldNameLists, tpe : {"Unique", "Normal"}]

\* The types of the fields of the models: every type that can not be used
\* in a key specification, one that can, and a field without native type.
ModelFields ==
    {NativeField(ScalarOf(name), parse_native_type(name, <<>>).instance, FALSE, FALSE) :
        name \in Range(NATIVE_TYPES_THAT_CAN_NOT_BE_USED_IN_KEY_SPECIFICATION) \cup {"Int"}}
    \cup {BaseField("String", FALSE, FALSE)}

\* Field "a" takes every one of these types, field "b" three of them.
ModelFieldMaps ==
    {m \in [FieldNames -> ModelFields] :
        \/ m["b"].field_type.kind = "Base"
        \/ m["b"].field_type.instance.name \in {"Text", "Int"}}

ModelInputs ==
    [fields : ModelFieldMaps,
     indices : SeqsUpTo(IndexDefinitions, MaxIndices),
     id_fields : {<<>>} \cup FieldNameLists]

ParseNativeType ==
    /\ call = NoCall
    /\ \E name \in ConstructorNames, args \in ParseArgLists :
          call' = [op |-> "parse_native_type", name |-> name, args |-> args,
                   out |-> parse_native_type(name, args)]
    /\ UNCHANGED rollbackVars

IntrospectNativeType ==
    /\ call = NoCall
    /\ \E native_type \in MySqlTypes :
          call' = [op |-> "introspect_native_type", native_type |-> native_type,
                   out |-> introspect_native_type(serialize_native_type(native_type))]
    /\ UNCHANGED rollbackVars

\* validate_field on a field of a native type, whose instance is the one
\* parse_native_type returned for the arguments of the schema.
ValidateNativeField ==
    /\ call = NoCall
    /\ \E name \in ConstructorNames :
       \E payload \in PayloadsOf(VariantOf(name)) :
       \E is_unique \in BOOLEAN, is_id \in BOOLEAN :
          LET parsed == parse_native_type(name, ArgsOf(payload))
              field == NativeField(ScalarOf(name), parsed.instance, is_unique, is_id)
          IN /\ parsed.ok
             /\ call' = [op |-> "validate_field", field |-> field,
                         out |-> validate_field(field)]
    /\ UNCHANGED rollbackVars

\* validate_field on a field without native type.
ValidateBaseField ==
    /\ call = NoCall
    /\ \E is_unique \in BOOLEAN, is_id \in BOOLEAN :
          LET field == BaseField("String", is_unique, is_id)
          IN call' = [op |-> "validate_field", field |-> field,
                      out |-> validate_field(field)]
    /\ UNCHANGED rollbackVars

ValidateModel ==
    /\ call = NoCall
    /\ \E model \in ModelInputs :
          call' = [op |-> "validate_model", model |-> model, out |-> validate_model(model)]
    /\ UNCHANGED rollbackVars

\* The caller has taken the result of the last call.
Return ==
    /\ call # NoCall
    /\ call' = NoCall
    /\ UNCHANGED rollbackVars

\* The state of the rollback command while it is not in use.
RollbackIdle ==
    /\ history = <<>>
    /\ pc = "idle"
    /\ input = "m1"
    /\ listed = <<>>
    /\ to_roll_back = <<>>
    /\ calls = <<>>
    /\ seen = <<>>
    /\ result = [ok |-> FALSE, error |-> "running", migration_name |-> "m1"]
    /\ runs = 0

InitCalls == RollbackIdle /\ call = NoCall

NextNativeTypes ==
    \/ ParseNativeType
    \/ IntrospectNativeType
    \/ Return

\* The registry: parse_native_type and introspect_native_type.
SpecNativeTypes == InitCalls /\ [][NextNativeTypes]_vars

NextValidate ==
    \/ ValidateNativeField
    \/ ValidateBaseField
    \/ ValidateModel
    \/ Return

\* The validator: validate_field and validate_model.
SpecValidate == InitCalls /\ [][NextValidate]_vars

(* Claims about the validator and the registry.                            *)

\* The decoded native type of the field validate_field was called with.
ValidatedType ==
    deserialize_native_type(call.field.field_type.instance.serialized_native_type)
ValidatedNativeField ==
    call.op = "validate_field" /\ call.field.field_type.kind = "NativeType"
\* validate_field was called on a Decimal or Numeric with (precision, scale).
ValidatedDecimal ==
    /\ ValidatedNativeField
    /\ ValidatedType.variant \in {"Decimal", "Numeric"}
    /\ ValidatedType.payload # <<>>
Precision == ValidatedType.payload[1]
Scale == ValidatedType.payload[2]

\* C4: validate_field on Decimal or Numeric (precision, scale) fails when
\* scale > precision, fails when precision > 65, fails when scale > 30, and
\* succeeds when precision is in 1..65, scale in 0..30 and scale <= precision.
C4_DecimalBounds ==
    ValidatedDecimal =>
        /\ Scale > Precision => ~call.out.ok
        /\ Precision > 65 => ~call.out.ok
        /\ Scale > 30 => ~call.out.ok
        /\ (Precision \in 1..65 /\ Scale \in 0..30 /\ Scale <= Precision) => call.out.ok

C4_Witness ==
    /\ ValidatedDecimal
    /\ ValidatedType.variant = "Numeric"
    /\ Precision = 65 /\ Scale = 30
    /\ call.field.is_unique /\ call.field.is_id
    /\ call.out.ok

\* C5: validate_field accepts a Decimal or Numeric (precision, scale) exactly
\* when precision is in 1..65, scale in 0..30 and scale <= precision; so a
\* precision of 0 is rejected.
C5_DecimalAcceptedIffInRange ==
    ValidatedDecimal =>
        (call.out.ok <=> (Precision \in 1..65 /\ Scale \in 0..30 /\ Scale <= Precision))

\* validate_field was called on a type that carries one length.
ValidatedLength(variant) ==
    ValidatedNativeField /\ ValidatedType.variant = variant
Length == ValidatedType.payload[1]

\* C6: Bit(n) fails for n = 0 and n > 64, Char(n) for n > 255, VarChar(n)
\* for n > 65535; Bit 1..64, Char 0..255 and VarChar 0..65535 succeed.
C6_LengthBounds ==
    /\ ValidatedLength("Bit") => (call.out.ok <=> Length \in 1..64)
    /\ ValidatedLength("Char") => (call.out.ok <=> Length \in 0..255)
    /\ ValidatedLength("VarChar") => (call.out.ok <=> Length \in 0..65535)

C6_Witness ==
    /\ ValidatedLength("Bit")
    /\ Length = 0
    /\ call.out = new_argument_m_out_of_range_error("M can range from 1 to 64.",
                                                    "Bit", "MySQL")

LargeObjectTypes ==
    {"Text", "TinyText", "MediumText", "LongText",
     "Blob", "TinyBlob", "MediumBlob", "LongBlob"}

\* The field of that name of the validated model has a large-object type.
IsLargeObjectField(field_name) ==
    LET f == call.model.fields[field_name]
    IN f.field_type.kind = "NativeType" /\ f.field_type.instance.name \in LargeObjectTypes
\* The fields of the validated model used by an index or by the id.
KeyFields ==
    UNION {Range(call.model.indices[i].fields) : i \in DOMAIN call.model.indices}
    \cup Range(call.model.id_fields)

\* C7: a field of one of the eight large-object types fails validate_field
\* when it is unique or id, fails validate_model when it is in an index or
\* in the id fields, and passes both without any of these markers.
C7_LargeObjectsNotInKeys ==
    /\ (ValidatedNativeField /\ call.field.field_type.instance.name \in LargeObjectTypes) =>
           (call.out.ok <=> (~call.field.is_unique /\ ~call.field.is_id))
    /\ call.op = "validate_model" =>
           (call.out.ok <=> ~\E f \in KeyFields : IsLargeObjectField(f))

C7_Witness ==
    /\ call.op = "validate_model"
    /\ call.model.fields["a"].field_type.kind = "NativeType"
    /\ call.model.fields["a"].field_type.instance.name = "LongBlob"
    /\ ~IsLargeObjectField("b")
    /\ call.model.indices = <<[fields |-> <<"b">>, tpe |-> "Normal"]>>
    /\ call.model.id_fields = <<"b", "a">>
    /\ ~call.out.ok

\* C8: for every MySqlType value v, with i = introspect_native_type(v),
\* parse_native_type(i.name, i.args) succeeds and returns an instance equal
\* to i, which decodes to v.
C8_ParseInvertsIntrospect ==
    call.op = "introspect_native_type" =>
        /\ call.out.ok
        /\ parse_native_type(call.out.instance.name, call.out.instance.args) = call.out
        /\ deserialize_native_type(call.out.instance.serialized_native_type)
               = call.native_type

C8_Witness ==
    /\ call.op = "introspect_native_type"
    /\ call.native_type = MySqlType("Numeric", <<65, 30>>)
    /\ call.out.ok
    /\ call.out.instance.name = "Numeric"
    /\ call.out.instance.args = <<<<"6", "5">>, <<"3", "0">>>>

----------------------------------------------------------------------------
(* The MySQL renderer.                                                      *)
(* A schema is [tables, enums]; a table [name, columns, indices,            *)
(* foreign_keys]; a column [name, family, enum_name, full_data_type, arity, *)
(* default, auto_increment]. A default is <<>> (none) or <<[kind, value]>>. *)
(* A walker names its object by position: [schema, table, column] or        *)
(* [schema, table, index]. Names are character sequences; every other piece *)
(* of text is one token.                                                    *)

Panic == [panic |-> TRUE]
Rendered(text) == [panic |-> FALSE, text |-> text]
Statements(stmts) == [panic |-> FALSE, stmts |-> stmts]

\* common::SQL_INDENTATION
SQL_INDENTATION == <<"    ">>

\* The backtick character, as a token.
Backtick == "backtick"

\* SqlRenderer::quote for MysqlFlavour, and Quoted::mysql_ident: backticks.
quote(name) == <<Backtick>> \o name \o <<Backtick>>
mysql_ident(name) == <<Backtick>> \o name \o <<Backtick>>
\* Quoted::mysql_string: single quotes around the text as it is.
mysql_string(str) == <<"'">> \o str \o <<"'">>

\* The walkers of sql_schema_describer.
TableOf(walker) == walker.schema.tables[walker.table]
ColumnOf(walker) == TableOf(walker).columns[walker.column]
IndexOf(walker) == TableOf(walker).indices[walker.index]
ColumnWalker(schema, table, column) ==
    [schema |-> schema, table |-> table, column |-> column]
IndexWalker(schema, table, index) ==
    [schema |-> schema, table |-> table, index |-> index]

\* TableWalker::foreign_key_for_column: some foreign key of the table
\* constrains the column.
foreign_key_for_column(table, column_name) ==
    \E i \in DOMAIN table.foreign_keys :
        column_name \in Range(table.foreign_keys[i].constrained_columns)

\* SqlSchema::get_enum: the first enum of that name, as <<enum>>.
get_enum(schema, enum_name) ==
    IF \E i \in DOMAIN schema.enums : schema.enums[i].name = enum_name
    THEN <<schema.enums[CHOOSE i \in DOMAIN schema.enums :
                /\ schema.enums[i].name = enum_name
                /\ \A j \in 1..(i - 1) : schema.enums[j].name # enum_name]>>
    ELSE <<>>

\* common::render_nullability
render_nullability(column) ==
    IF column.arity = "Required" THEN <<" NOT NULL">> ELSE <<>>

RECURSIVE escape_string_literal(_)
\* replace_all of the regex ' by '$0: every single quote is doubled.
escape_string_literal(str) ==
    IF str = <<>> THEN <<>>
    ELSE (IF Head(str) = "'" THEN <<"'", "'">> ELSE <<Head(str)>>)
         \o escape_string_literal(Tail(str))

\* Display of a PrismaValue: [type, value], the value a character sequence
\* but for Int (a number) and Boolean.
display_prisma_value(val) ==
    CASE val.type = "Int" -> to_string(val.value)
      [] val.type = "Boolean" -> IF val.value THEN <<"true">> ELSE <<"false">>
      [] OTHER -> val.value

\* render_default. The arms in order; the first that matches decides.
render_default(default, family) ==
    CASE default.kind = "DBGENERATED" -> Rendered(default.value)
      [] default.kind = "VALUE" /\ default.value.type = "String" /\ family = "String" ->
             Rendered(<<"'">> \o escape_string_literal(default.value.value) \o <<"'">>)
      [] default.kind = "VALUE" /\ default.value.type = "Enum" /\ family = "Enum" ->
             Rendered(<<"'">> \o escape_string_literal(default.value.value) \o <<"'">>)
      [] default.kind = "NOW" /\ family = "DateTime" -> Rendered(<<"CURRENT_TIMESTAMP(3)">>)
      [] default.kind = "NOW" -> Panic
      [] default.kind = "VALUE" /\ family = "DateTime" ->
             Rendered(<<"'">> \o display_prisma_value(default.value) \o <<"'">>)
      [] default.kind = "VALUE" -> Rendered(display_prisma_value(default.value))
      [] default.kind = "SEQUENCE" -> Rendered(<<>>)

VARCHAR_LENGTH_PREFIX == <<"(191)">>

\* render_column_type: full_data_type when it is not empty, else the type
\* of the family.
render_column_type(column_walker) ==
    LET column == ColumnOf(column_walker)
    IN IF column.full_data_type # <<>> THEN Rendered(column.full_data_type)
       ELSE CASE column.family = "Boolean" -> Rendered(<<"BOOLEAN">>)
              [] column.family = "DateTime" -> Rendered(<<"DATETIME(3)">>)
              [] column.family = "Float" -> Rendered(<<"DECIMAL(65,30)">>)
              [] column.family = "Decimal" -> Rendered(<<"DECIMAL(65,30)">>)
              [] column.family = "Int" -> Rendered(<<"INT">>)
              [] column.family = "BigInt" -> Rendered(<<"BIGINT">>)
              [] column.family = "String" -> Rendered(<<"VARCHAR">> \o VARCHAR_LENGTH_PREFIX)
              [] column.family = "Enum" ->
                     LET found == get_enum(column_walker.schema, column.enum_name)
                     IN IF found = <<>> THEN Panic
                        ELSE Rendered(<<"ENUM(">>
                                 \o Join([i \in DOMAIN found[1].values |->
                                             mysql_string(found[1].values[i])], <<", ">>)
                                 \o <<")">>)
              [] column.family = "Json" -> Rendered(<<"JSON">>)
              [] column.family = "Binary" -> Rendered(<<"LONGBLOB">>)
              [] OTHER -> Panic

\* The filter of render_column on column.default(): the defaults it renders.
default_is_rendered_json_too(column) ==
    /\ column.default # <<>>
    /\ column.default[1].kind \notin {"DBGENERATED", "SEQUENCE"}
    /\ column.family # "Binary"

default_is_rendered(column) ==
    /\ column.default # <<>>
    /\ column.default[1].kind \notin {"DBGENERATED", "SEQUENCE"}
    /\ column.family # "Json"
    /\ column.family # "Binary"

\* A variant of render_column that writes AUTO_INCREMENT whatever foreign
\* key the column has.
render_column_auto_increment_always(column_walker) ==
    LET column == ColumnOf(column_walker)
        tpe_str == render_column_type(column_walker)
        default == IF default_is_rendered(column)
                   THEN render_default(column.default[1], column.family)
                   ELSE Rendered(<<>>)
    IN IF tpe_str.panic \/ default.panic THEN Panic
       ELSE Rendered(SQL_INDENTATION \o quote(column.name) \o <<" ">> \o tpe_str.text
                     \o render_nullability(column)
                     \o (IF default_is_rendered(column)
                         THEN <<" DEFAULT ">> \o default.text ELSE <<>>)
                     \o (IF column.auto_increment THEN <<" AUTO_INCREMENT">> ELSE <<>>))

render_column(column_walker) ==
    LET column == ColumnOf(column_walker)
        column_name == quote(column.name)
        tpe_str == render_column_type(column_walker)
        nullability_str == render_nullability(column)
        default == IF default_is_rendered(column)
                   THEN render_default(column.default[1], column.family)
                   ELSE Rendered(<<>>)
        default_str == IF default_is_rendered(column)
                       THEN <<" DEFAULT ">> \o default.text ELSE <<>>
        foreign_key == foreign_key_for_column(TableOf(column_walker), column.name)
        auto_increment_str == IF column.auto_increment THEN <<" AUTO_INCREMENT">> ELSE <<>>
    IN IF tpe_str.panic \/ default.panic THEN Panic
       ELSE IF foreign_key
       THEN Rendered(SQL_INDENTATION \o column_name \o <<" ">> \o tpe_str.text
                     \o nullability_str \o default_str)
       ELSE Rendered(SQL_INDENTATION \o column_name \o <<" ">> \o tpe_str.text
                     \o nullability_str \o default_str \o auto_increment_str)

(* ColumnChanges: the set of the flags that differ between the two sides.   *)
ColumnChangeFlags ==
    {"TypeChanged", "Default", "Arity", "Renaming", "Autoincrement", "Sequence"}
type_changed(changes) == "TypeChanged" \in changes
only_default_changed(changes) == changes = {"Default"}
column_was_renamed(changes) == "Renaming" \in changes

\* DefaultValue::db_generated
db_generated(expression) == [kind |-> "DBGENERATED", value |-> expression]

\* The default MysqlAlterColumn::new gives Modify: the previous expression
\* when both sides are DBGENERATED, the next one is empty and the previous
\* one is not; the default of the next column otherwise.
new_default_of_next_only(previous, next) == next.default

\* The default of the Modify: the previous expression when the next
\* dbgenerated() is empty, the default of the next column otherwise.
new_default_of(previous, next) ==
    IF /\ previous.default # <<>> /\ previous.default[1].kind = "DBGENERATED"
       /\ next.default # <<>> /\ next.default[1].kind = "DBGENERATED"
       /\ next.default[1].value = <<>>
       /\ previous.default[1].value # <<>>
    THEN <<db_generated(previous.default[1].value)>>
    ELSE next.default

\* A variant of MysqlAlterColumn_new without the test of the renaming.
MysqlAlterColumn_new_renaming_allowed(columns, changes) ==
    LET previous == ColumnOf(columns.previous)
        next == ColumnOf(columns.next)
    IN IF only_default_changed(changes) /\ next.default = <<>>
       THEN [panic |-> FALSE, kind |-> "DropDefault"]
       ELSE [panic |-> FALSE, kind |-> "Modify",
             new_default |-> new_default_of(previous, next), changes |-> changes]

\* A variant of MysqlAlterColumn_new that rewrites the column for every
\* change.
MysqlAlterColumn_new_always_modify(columns, changes) ==
    LET previous == ColumnOf(columns.previous)
        next == ColumnOf(columns.next)
    IN IF column_was_renamed(changes) THEN Panic
       ELSE [panic |-> FALSE, kind |-> "Modify",
             new_default |-> new_default_of(previous, next), changes |-> changes]

\* MysqlAlterColumn::new on the pair of column walkers.
MysqlAlterColumn_new(columns, changes) ==
    LET previous == ColumnOf(columns.previous)
        next == ColumnOf(columns.next)
    IN IF only_default_changed(changes) /\ next.default = <<>>
       THEN [panic |-> FALSE, kind |-> "DropDefault"]
       ELSE IF column_was_renamed(changes) THEN Panic
       ELSE [panic |-> FALSE, kind |-> "Modify",
             new_default |-> new_default_of(previous, next), changes |-> changes]

\* str::contains("datetime") on a data type.
contains_datetime(full_data_type) ==
    \E i \in DOMAIN full_data_type :
        full_data_type[i] \in {"datetime", "datetime(3)", "datetime(6)"}

render_mysql_modify(changes, new_default, next_column) ==
    LET next == ColumnOf(next_column)
        column_type_opt ==
            IF type_changed(changes)
            THEN IF next.full_data_type # <<>> \/ contains_datetime(next.full_data_type)
                 THEN <<next.full_data_type>> ELSE <<>>
            ELSE IF next.full_data_type # <<>> THEN <<next.full_data_type>> ELSE <<>>
        column_type == IF column_type_opt # <<>> THEN Rendered(column_type_opt[1])
                       ELSE render_column_type(next_column)
        rendered_default == IF new_default = <<>> THEN Rendered(<<>>)
                            ELSE render_default(new_default[1], next.family)
    IN IF column_type.panic \/ rendered_default.panic THEN Panic
       ELSE Rendered(<<"MODIFY ">> \o mysql_ident(next.name) \o <<" ">> \o column_type.text
                     \o (IF next.arity = "Required" THEN <<" NOT NULL">> ELSE <<>>)
                     \o (IF rendered_default.text # <<>>
                         THEN <<" DEFAULT ">> \o rendered_default.text ELSE <<>>)
                     \o (IF next.auto_increment THEN <<" AUTO_INCREMENT">> ELSE <<>>))

(* The statements of sql_ddl::mysql, as their Display writes them.          *)
ddl_DropPrimaryKey == <<"DROP PRIMARY KEY">>
ddl_DropColumn(column_name) == <<"DROP COLUMN ">> \o mysql_ident(column_name)
ddl_RenameIndex(previous_name, next_name) ==
    <<"RENAME INDEX ">> \o mysql_ident(previous_name) \o <<" TO ">> \o mysql_ident(next_name)
ddl_AlterTable(table_name, clauses) ==
    <<"ALTER TABLE ">> \o mysql_ident(table_name) \o <<" ">> \o Join(clauses, <<",\n    ">>)
ddl_DropIndex(index_name, table_name) ==
    <<"DROP INDEX ">> \o mysql_ident(index_name) \o <<" ON ">> \o mysql_ident(table_name)
ddl_CreateIndex(unique, index_name, table_name, columns) ==
    <<"CREATE ">> \o (IF unique THEN <<"UNIQUE ">> ELSE <<>>) \o <<"INDEX ">>
    \o mysql_ident(index_name) \o <<" ON ">> \o mysql_ident(table_name) \o <<"(">>
    \o Join([i \in DOMAIN columns |-> mysql_ident(columns[i])], <<", ">>) \o <<")">>

\* The line render_alter_table pushes for one TableChange.
alter_table_line(change, tables) ==
    CASE change.kind = "DropPrimaryKey" -> Rendered(ddl_DropPrimaryKey)
      [] change.kind = "AddPrimaryKey" ->
             Rendered(<<"ADD PRIMARY KEY (">>
                      \o Join([i \in DOMAIN change.columns |-> quote(change.columns[i])],
                              <<", ">>)
                      \o <<")">>)
      [] change.kind = "AddColumn" ->
             LET col_sql == render_column(ColumnWalker(tables.next.schema, tables.next.table,
                                                       change.column_index))
             IN IF col_sql.panic THEN Panic
                ELSE Rendered(<<"ADD COLUMN ">> \o col_sql.text)
      [] change.kind = "DropColumn" ->
             Rendered(ddl_DropColumn(TableOf(tables.previous).columns[change.index].name))
      [] change.kind = "AlterColumn" ->
             LET columns ==
                     [previous |-> ColumnWalker(tables.previous.schema, tables.previous.table,
                                                change.column_index.previous),
                      next |-> ColumnWalker(tables.next.schema, tables.next.table,
                                            change.column_index.next)]
                 expanded == MysqlAlterColumn_new(columns, change.changes)
             IN IF expanded.panic THEN Panic
                ELSE IF expanded.kind = "DropDefault"
                THEN Rendered(<<"ALTER COLUMN ">>
                              \o mysql_ident(ColumnOf(columns.previous).name)
                              \o <<" DROP DEFAULT">>)
                ELSE render_mysql_modify(expanded.changes, expanded.new_default, columns.next)
      [] change.kind = "DropAndRecreateColumn" -> Panic

RECURSIVE alter_table_lines(_, _)
\* The loop of render_alter_table over the changes: the lines in the order
\* of the changes; a change that panics ends the call.
alter_table_lines(changes, tables) ==
    IF changes = <<>> THEN [panic |-> FALSE, lines |-> <<>>]
    ELSE LET line == alter_table_line(Head(changes), tables)
         IN IF line.panic THEN Panic
            ELSE LET rest == alter_table_lines(Tail(changes), tables)
                 IN IF rest.panic THEN Panic
                    ELSE [panic |-> FALSE, lines |-> <<line.text>> \o rest.lines]

\* The end of render_alter_table without the test lines.is_empty().
alter_table_statements_always(lines, table_name) ==
    <<(<<"ALTER TABLE ">> \o quote(table_name) \o <<" ">> \o Join(lines, <<",\n    ">>))>>

\* The end of render_alter_table: no statement for no line, else one.
alter_table_statements(lines, table_name) ==
    IF lines = <<>> THEN <<>>
    ELSE <<(<<"ALTER TABLE ">> \o quote(table_name) \o <<" ">> \o Join(lines, <<",\n    ">>))>>

render_alter_table(alter_table, schemas) ==
    LET tables == [previous |-> [schema |-> schemas.previous,
                                 table |-> alter_table.table_index.previous],
                   next |-> [schema |-> schemas.next,
                             table |-> alter_table.table_index.next]]
        collected == alter_table_lines(alter_table.changes, tables)
    IN IF collected.panic THEN Panic
       ELSE Statements(alter_table_statements(collected.lines, TableOf(tables.previous).name))

MYSQL_IDENTIFIER_SIZE_LIMIT == 64

\* &name[0..MYSQL_IDENTIFIER_SIZE_LIMIT] for a longer name, else the name.
truncated_index_name(name) ==
    IF Len(name) > MYSQL_IDENTIFIER_SIZE_LIMIT
    THEN SubSeq(name, 1, MYSQL_IDENTIFIER_SIZE_LIMIT)
    ELSE name

render_create_index(index_walker) ==
    LET index == IndexOf(index_walker)
    IN ddl_CreateIndex(index.tpe = "Unique", truncated_index_name(index.name),
                       TableOf(index_walker).name, index.columns)

render_drop_index(index_walker) ==
    ddl_DropIndex(IndexOf(index_walker).name, TableOf(index_walker).name)

render_alter_index(indexes) ==
    <<ddl_AlterTable(TableOf(indexes.previous).name,
                     <<ddl_RenameIndex(IndexOf(indexes.previous).name,
                                       IndexOf(indexes.next).name)>>)>>

\* A variant of render_drop_and_recreate_index that drops first.
render_drop_and_recreate_index_drop_first(indexes) ==
    << ddl_DropIndex(IndexOf(indexes.previous).name, TableOf(indexes.previous).name),
       render_create_index(indexes.next) >>

render_drop_and_recreate_index(indexes) ==
    << render_create_index(indexes.next),
       ddl_DropIndex(IndexOf(indexes.previous).name, TableOf(indexes.previous).name) >>

\* The steps MySQL does not have: enums live in the columns, and tables are
\* never redefined.
render_create_enum == Statements(<<>>)
render_drop_enum == Statements(<<>>)
render_alter_enum == Panic
render_redefine_tables == Panic

-----------------------------------------------------------------------------
(* The schemas the renderer is called on: one table, present on both sides. *)

MaxChanges == 3

Column(name, family, enum_name, full_data_type, arity, default, auto_increment) ==
    [name |-> name, family |-> family, enum_name |-> enum_name,
     full_data_type |-> full_data_type, arity |-> arity, default |-> default,
     auto_increment |-> auto_increment]

DefaultValue(kind, value) == <<[kind |-> kind, value |-> value]>>
PrismaValue(type, value) == [type |-> type, value |-> value]

NextColumns ==
    << Column(<<"i","d">>, "Int", "", <<>>, "Required", <<>>, TRUE),
       Column(<<"r","e","f">>, "Int", "", <<>>, "Required", <<>>, TRUE),
       Column(<<"n","a","m","e">>, "String", "", <<>>, "Nullable",
              DefaultValue("VALUE", PrismaValue("String", <<"i","t","'","s">>)), FALSE),
       Column(<<"a","t">>, "DateTime", "", <<"datetime(3)">>, "Required",
              DefaultValue("NOW", <<>>), FALSE),
       Column(<<"d","a","y">>, "DateTime", "", <<>>, "Nullable",
              DefaultValue("VALUE", PrismaValue("DateTime", <<"2","0","2","0">>)), FALSE),
       Column(<<"d","o","c">>, "Json", "", <<>>, "Nullable",
              DefaultValue("VALUE", PrismaValue("Json", <<"{","}">>)), FALSE),
       Column(<<"k","i","n","d">>, "Enum", "e", <<>>, "Required",
              DefaultValue("VALUE", PrismaValue("Enum", <<"A">>)), FALSE),
       Column(<<"g","e","n">>, "Int", "", <<>>, "Required",
              DefaultValue("DBGENERATED", <<>>), FALSE),
       Column(<<"n">>, "Int", "", <<"int">>, "Nullable",
              DefaultValue("VALUE", PrismaValue("Int", 5)), FALSE),
       Column(<<"b","a","d">>, "Int", "", <<>>, "Required",
              DefaultValue("NOW", <<>>), FALSE),
       Column(<<"l","o","s","t">>, "Enum", "zz", <<>>, "Required", <<>>, FALSE),
       Column(<<"s","e","q">>, "Int", "", <<>>, "Required",
              DefaultValue("SEQUENCE", <<>>), FALSE),
       Column(<<"b","l","o","b">>, "Binary", "", <<>>, "Nullable",
              DefaultValue("VALUE", PrismaValue("Bytes", <<"x">>)), FALSE),
       Column(<<"u">>, "Uuid", "", <<>>, "Required", <<>>, FALSE),
       Column(<<"g","2">>, "Int", "", <<>>, "Nullable",
              DefaultValue("DBGENERATED", <<"u","u","i","d","(",")">>), FALSE),
       Column(<<"g","3">>, "Int", "", <<>>, "Nullable",
              DefaultValue("DBGENERATED", <<>>), FALSE) >>

\* The columns of the previous side: those of the next side but the last,
\* with other defaults, types and arities.
PreviousColumns ==
    << Column(<<"i","d">>, "Int", "", <<>>, "Required",
              DefaultValue("VALUE", PrismaValue("Int", 1)), FALSE),
       Column(<<"r","e","f">>, "Int", "", <<>>, "Nullable", <<>>, FALSE),
       Column(<<"n","a","m","e">>, "String", "", <<>>, "Required", <<>>, FALSE),
       Column(<<"a","t">>, "DateTime", "", <<"datetime">>, "Required", <<>>, FALSE),
       Column(<<"d","a","y">>, "DateTime", "", <<>>, "Nullable", <<>>, FALSE),
       Column(<<"d","o","c">>, "Json", "", <<>>, "Nullable", <<>>, FALSE),
       Column(<<"k","i","n","d">>, "Enum", "e", <<>>, "Required",
              DefaultValue("VALUE", PrismaValue("Enum", <<"B">>)), FALSE),
       Column(<<"g","e","n">>, "Int", "", <<>>, "Required",
              DefaultValue("DBGENERATED", <<"r","a","n","d","(",")">>), FALSE),
       Column(<<"n">>, "Int", "", <<"int">>, "Nullable",
              DefaultValue("VALUE", PrismaValue("Int", 4)), FALSE),
       Column(<<"b","a","d">>, "Int", "", <<>>, "Required", <<>>, FALSE),
       Column(<<"l","o","s","t">>, "Enum", "e", <<>>, "Required", <<>>, FALSE),
       Column(<<"s","e","q">>, "Int", "", <<>>, "Required", <<>>, TRUE),
       Column(<<"b","l","o","b">>, "Binary", "", <<>>, "Nullable", <<>>, FALSE),
       Column(<<"g","2">>, "Int", "", <<>>, "Nullable",
              DefaultValue("DBGENERATED", <<"n","o","w","(",")">>), FALSE),
       Column(<<"g","3">>, "Int", "", <<>>, "Nullable",
              DefaultValue("DBGENERATED", <<>>), FALSE) >>

\* An index name of n characters that begins with first.
IndexName(first, n) == <<first>> \o [i \in 1..(n - 1) |-> "x"]

Index(name, tpe, columns) == [name |-> name, tpe |-> tpe, columns |-> columns]

\* The indices of one side, their names beginning with first.
IndicesOf(first) ==
    << Index(IndexName(first, 1), "Normal", << <<"i","d">> >>),
       Index(IndexName(first, 1), "Unique", << <<"i","d">>, <<"n","a","m","e">> >>),
       Index(IndexName(first, MYSQL_IDENTIFIER_SIZE_LIMIT), "Normal", << <<"i","d">> >>),
       Index(IndexName(first, MYSQL_IDENTIFIER_SIZE_LIMIT + 1), "Unique", << <<"i","d">> >>),
       Index(IndexName(first, MYSQL_IDENTIFIER_SIZE_LIMIT + 1), "Normal",
             << <<"r","e","f">>, <<"i","d">> >>),
       Index(IndexName(first, MYSQL_IDENTIFIER_SIZE_LIMIT + 2), "Normal", << <<"n">> >>) >>

Enums == << [name |-> "e", values |-> << <<"A">>, <<"B">>, <<"i","t","'","s">> >>] >>

SqlSchema(columns, indices) ==
    [tables |-> << [name |-> <<"t">>, columns |-> columns, indices |-> indices,
                    foreign_keys |-> << [constrained_columns |-> << <<"r","e","f">> >>] >>] >>,
     enums |-> Enums]

\* The pair of schemas of a migration: Pair<&SqlSchema>.
Schemas ==
    [previous |-> SqlSchema(PreviousColumns, IndicesOf("p")),
     next |-> SqlSchema(NextColumns, IndicesOf("n"))]

TableIndex == [previous |-> 1, next |-> 1]

\* The columns both sides have, as pairs of indexes: the differ pairs the
\* columns by name.
ColumnPairs ==
    {p \in [previous : DOMAIN PreviousColumns, next : DOMAIN NextColumns] :
        PreviousColumns[p.previous].name = NextColumns[p.next].name}

AlterColumn(changes, column_index) ==
    [kind |-> "AlterColumn", changes |-> changes, column_index |-> column_index]

\* Every TableChange on the table.
TableChanges ==
    {[kind |-> "DropPrimaryKey"], [kind |-> "DropAndRecreateColumn"]}
    \cup {[kind |-> "AddPrimaryKey", columns |-> columns] :
              columns \in {<< <<"i","d">> >>, << <<"i","d">>, <<"r","e","f">> >>}}
    \cup {[kind |-> "AddColumn", column_index |-> j] : j \in DOMAIN NextColumns}
    \cup {[kind |-> "DropColumn", index |-> i] : i \in DOMAIN PreviousColumns}
    \cup {AlterColumn(changes, column_index) :
              changes \in SUBSET ColumnChangeFlags, column_index \in ColumnPairs}

\* The changes the longer lists are made of.
ShortTableChanges ==
    {[kind |-> "DropPrimaryKey"],
     [kind |-> "AddPrimaryKey", columns |-> << <<"i","d">>, <<"r","e","f">> >>],
     [kind |-> "AddColumn", column_index |-> 3],
     [kind |-> "DropColumn", index |-> 1],
     AlterColumn({"Default"}, [previous |-> 1, next |-> 1]),
     AlterColumn({"TypeChanged", "Default"}, [previous |-> 4, next |-> 4]),
     AlterColumn({"Default"}, [previous |-> 10, next |-> 10])}

\* The lists of changes of the AlterTable steps: every list of one change,
\* and the lists of up to MaxChanges of the short ones.
ChangeLists ==
    {<<change>> : change \in TableChanges} \cup SeqsUpTo(ShortTableChanges, MaxChanges)

IndexPairs == [previous : DOMAIN IndicesOf("p"), next : DOMAIN IndicesOf("n")]

\* An AlterTable step is rendered.
RenderAlterTable ==
    /\ call = NoCall
    /\ \E changes \in ChangeLists :
          LET alter_table == [table_index |-> TableIndex, changes |-> changes]
          IN call' = [op |-> "render_alter_table", alter_table |-> alter_table,
                      out |-> render_alter_table(alter_table, Schemas)]
    /\ UNCHANGED rollbackVars

\* A column of the next schema is rendered, as CREATE TABLE and ADD COLUMN do.
RenderColumn ==
    /\ call = NoCall
    /\ \E j \in DOMAIN NextColumns :
          call' = [op |-> "render_column", column |-> j,
                   out |-> render_column(ColumnWalker(Schemas.next, TableIndex.next, j))]
    /\ UNCHANGED rollbackVars

RenderCreateIndex ==
    /\ call = NoCall
    /\ \E side \in {"previous", "next"} :
       \E i \in DOMAIN IndicesOf("n") :
          call' = [op |-> "render_create_index", side |-> side, index |-> i,
                   out |-> render_create_index(IndexWalker(Schemas[side], 1, i))]
    /\ UNCHANGED rollbackVars

RenderDropIndex ==
    /\ call = NoCall
    /\ \E side \in {"previous", "next"} :
       \E i \in DOMAIN IndicesOf("n") :
          call' = [op |-> "render_drop_index", side |-> side, index |-> i,
                   out |-> render_drop_index(IndexWalker(Schemas[side], 1, i))]
    /\ UNCHANGED rollbackVars

\* The pair of walkers of a renamed index.
IndexWalkers(pair) ==
    [previous |-> IndexWalker(Schemas.previous, TableIndex.previous, pair.previous),
     next |-> IndexWalker(Schemas.next, TableIndex.next, pair.next)]

RenderAlterIndex ==
    /\ call = NoCall
    /\ \E pair \in IndexPairs :
          call' = [op |-> "render_alter_index", indexes |-> pair,
                   out |-> render_alter_index(IndexWalkers(pair))]
    /\ UNCHANGED rollbackVars

RenderDropAndRecreateIndex ==
    /\ call = NoCall
    /\ \E pair \in IndexPairs :
          call' = [op |-> "render_drop_and_recreate_index", indexes |-> pair,
                   out |-> render_drop_and_recreate_index(IndexWalkers(pair))]
    /\ UNCHANGED rollbackVars

\* The steps on enums and the redefinition of tables; the renderer reads
\* none of their arguments.
AlterEnums ==
    [index : {[previous |-> 1, next |-> 1]},
     created_variants : {<<>>, << <<"C">> >>},
     dropped_variants : {<<>>, << <<"A">> >>}]

RenderAlterEnum ==
    /\ call = NoCall
    /\ \E alter_enum \in AlterEnums :
          call' = [op |-> "render_alter_enum", alter_enum |-> alter_enum,
                   out |-> render_alter_enum]
    /\ UNCHANGED rollbackVars

RenderCreateEnum ==
    /\ call = NoCall
    /\ \E i \in DOMAIN Schemas.next.enums :
          call' = [op |-> "render_create_enum", enum |-> i, out |-> render_create_enum]
    /\ UNCHANGED rollbackVars

RenderDropEnum ==
    /\ call = NoCall
    /\ \E i \in DOMAIN Schemas.previous.enums :
          call' = [op |-> "render_drop_enum", enum |-> i, out |-> render_drop_enum]
    /\ UNCHANGED rollbackVars

RenderRedefineTables ==
    /\ call = NoCall
    /\ \E names \in {<<>>, <<[table_index |-> TableIndex]>>} :
          call' = [op |-> "render_redefine_tables", names |-> names,
                   out |-> render_redefine_tables]
    /\ UNCHANGED rollbackVars

NextRenderer ==
    \/ RenderAlterTable
    \/ RenderColumn
    \/ RenderCreateIndex
    \/ RenderDropIndex
    \/ RenderAlterIndex
    \/ RenderDropAndRecreateIndex
    \/ RenderAlterEnum
    \/ RenderCreateEnum
    \/ RenderDropEnum
    \/ RenderRedefineTables
    \/ Return

\* The MySQL renderer.
SpecRenderer == InitCalls /\ [][NextRenderer]_vars

-----------------------------------------------------------------------------
(* render_alter_table and render_drop_and_recreate_index                    *)

StartsWith(s, prefix) ==
    Len(s) >= Len(prefix) /\ SubSeq(s, 1, Len(prefix)) = prefix

EndsWith(s, suffix) ==
    Len(s) >= Len(suffix) /\ SubSeq(s, Len(s) - Len(suffix) + 1, Len(s)) = suffix

RECURSIVE SplitOn(_, _)
\* The pieces of s between the tokens sep.
SplitOn(s, sep) ==
    IF \A k \in DOMAIN s : s[k] # sep THEN <<s>>
    ELSE LET k == CHOOSE k \in DOMAIN s : s[k] = sep /\ \A l \in 1..(k - 1) : s[l] # sep
         IN <<SubSeq(s, 1, k - 1)>> \o SplitOn(SubSeq(s, k + 1, Len(s)), sep)

Quoted(name) == <<Backtick>> \o name \o <<Backtick>>

AlterTableReturned == call.op = "render_alter_table" /\ ~call.out.panic

\* What an ALTER TABLE on the table begins with, and its clauses.
AlterTableHead == <<"ALTER TABLE ">> \o Quoted(<<"t">>) \o <<" ">>
ClausesOf(stmt) ==
    SplitOn(SubSeq(stmt, Len(AlterTableHead) + 1, Len(stmt)), ",\n    ")

\* The clause is the one of the change: its keyword, then the column.
ClauseIsFor(clause, change) ==
    CASE change.kind = "DropPrimaryKey" -> clause = <<"DROP PRIMARY KEY">>
      [] change.kind = "AddPrimaryKey" ->
             StartsWith(clause, <<"ADD PRIMARY KEY (">> \o Quoted(change.columns[1]))
      [] change.kind = "AddColumn" ->
             StartsWith(clause, <<"ADD COLUMN ", "    ">>
                                \o Quoted(NextColumns[change.column_index].name))
      [] change.kind = "DropColumn" ->
             clause = <<"DROP COLUMN ">> \o Quoted(PreviousColumns[change.index].name)
      [] change.kind = "AlterColumn" ->
             LET name == Quoted(NextColumns[change.column_index.next].name)
             IN \/ clause = <<"ALTER COLUMN ">> \o name \o <<" DROP DEFAULT">>
                \/ StartsWith(clause, <<"MODIFY ">> \o name \o <<" ">>)
      [] OTHER -> FALSE

\* C9: render_alter_table returns no statement when the step has no clause
\* (never an ALTER TABLE without a clause), and else exactly one ALTER TABLE
\* statement with one clause per TableChange, in the order of the changes.
C9_AlterTableClauses ==
    AlterTableReturned =>
        LET changes == call.alter_table.changes
            stmts == call.out.stmts
        IN IF changes = <<>> THEN stmts = <<>>
           ELSE /\ Len(stmts) = 1
                /\ StartsWith(stmts[1], AlterTableHead)
                /\ Len(stmts[1]) > Len(AlterTableHead)
                /\ LET clauses == ClausesOf(stmts[1])
                   IN /\ Len(clauses) = Len(changes)
                      /\ \A i \in DOMAIN changes : ClauseIsFor(clauses[i], changes[i])

\* An ALTER TABLE of three clauses of three kinds, an altered column last.
C9_Witness ==
    /\ AlterTableReturned
    /\ Len(call.alter_table.changes) = 3
    /\ call.alter_table.changes[1].kind = "AddColumn"
    /\ call.alter_table.changes[2].kind = "DropPrimaryKey"
    /\ call.alter_table.changes[3].kind = "AlterColumn"
    /\ Len(call.out.stmts) = 1
    /\ Len(ClausesOf(call.out.stmts[1])) = 3

DropAndRecreateReturned == call.op = "render_drop_and_recreate_index"

\* The statement creates the index on the table, unique or not as the index
\* is, under a name that begins as the name of the index does.
IsCreateIndexOf(stmt, index) ==
    LET k == IF index.tpe = "Unique" THEN 3 ELSE 2
    IN /\ Len(stmt) > k + 2
       /\ stmt[1] = "CREATE "
       /\ (index.tpe = "Unique" => stmt[2] = "UNIQUE ")
       /\ stmt[k] = "INDEX "
       /\ stmt[k + 1] = Backtick
       /\ stmt[k + 2] = index.name[1]
       /\ EndsWith(stmt, <<" ON ">> \o Quoted(<<"t">>) \o <<"(">>
                         \o Join([i \in DOMAIN index.columns |-> Quoted(index.columns[i])],
                                 <<", ">>)
                         \o <<")">>)

IsDropIndexOf(stmt, index) ==
    stmt = <<"DROP INDEX ">> \o Quoted(index.name) \o <<" ON ">> \o Quoted(<<"t">>)

\* C10: render_drop_and_recreate_index returns exactly two statements for
\* every pair of indexes: the CREATE INDEX of the next index first, the
\* DROP INDEX of the previous index second.
C10_CreateThenDrop ==
    DropAndRecreateReturned =>
        /\ Len(call.out) = 2
        /\ IsCreateIndexOf(call.out[1], Schemas.next.tables[1].indices[call.indexes.next])
        /\ IsDropIndexOf(call.out[2], Schemas.previous.tables[1].indices[call.indexes.previous])

\* A pair whose next index is unique and whose names are both longer than
\* the identifier limit.
C10_Witness ==
    /\ DropAndRecreateReturned
    /\ Schemas.next.tables[1].indices[call.indexes.next].tpe = "Unique"
    /\ Len(Schemas.next.tables[1].indices[call.indexes.next].name)
           > MYSQL_IDENTIFIER_SIZE_LIMIT
    /\ Len(Schemas.previous.tables[1].indices[call.indexes.previous].name)
           > MYSQL_IDENTIFIER_SIZE_LIMIT
    /\ Len(call.out) = 2
    /\ call.out[1][1] = "CREATE "
    /\ call.out[2][1] = "DROP INDEX "

-----------------------------------------------------------------------------
(* render_create_index and render_drop_index on the same index              *)

RECURSIVE UpToBacktick(_)
\* The tokens of s before its first backtick.
UpToBacktick(s) ==
    IF s = <<>> \/ Head(s) = Backtick THEN <<>>
    ELSE <<Head(s)>> \o UpToBacktick(Tail(s))

\* The first quoted name of a statement: the index name of CREATE INDEX and
\* of DROP INDEX.
WrittenIndexName(stmt) ==
    LET before == UpToBacktick(stmt)
    IN UpToBacktick(SubSeq(stmt, Len(before) + 2, Len(stmt)))

DropIndexReturned == call.op = "render_drop_index"

\* C11: for every index, the name render_drop_index writes is the name
\* render_create_index writes for that same index, also when the name of
\* the index is longer than the identifier size limit.
C11_SameNameInCreateAndDrop ==
    DropIndexReturned =>
        WrittenIndexName(call.out)
            = WrittenIndexName(render_create_index(IndexWalker(Schemas[call.side], 1,
                                                               call.index)))

-----------------------------------------------------------------------------
(* parse_native_type: the count and the bounds of the arguments             *)

ParseReturned == call.op = "parse_native_type"

\* Every argument is the text of a u32.
ArgsAreNumbers(args) == \A i \in DOMAIN args : parse_u32(args[i]).ok

\* The number of arguments is one the registered constructor declares.
CountMatchesArity(name, args) ==
    LET constructor == find_native_type_constructor(name)[1]
    IN /\ Len(args) >= constructor.number_of_args
       /\ Len(args) <= constructor.number_of_args + constructor.number_of_optional_args

\* C12: parse_native_type fails with an argument count error whenever the
\* number of arguments is not one the constructor registered under the name
\* declares (here for arguments that are all numbers).
C12_ArgumentCountChecked ==
    (ParseReturned /\ ArgsAreNumbers(call.args) /\ ~CountMatchesArity(call.name, call.args))
        => (~call.out.ok /\ call.out.error = "ArgumentCountMisMatchError")

\* The numbers the arguments are the text of.
ArgValues(args) == [i \in DOMAIN args |-> parse_u32(args[i]).value]

\* The arguments break the bound MySQL puts on the native type of that name.
ViolatesDialectBound(name, values) ==
    CASE name = "Bit" -> values[1] = 0 \/ values[1] > 64
      [] name = "Char" -> values[1] > 255
      [] name = "VarChar" -> values[1] > 65535
      [] name \in {"Decimal", "Numeric"} ->
             Len(values) = 2 /\ (values[1] > 65 \/ values[2] > 30)
      [] OTHER -> FALSE

\* C13: parse_native_type fails with an argument out of range error whenever
\* an argument breaks the bound of the native type; it never returns an
\* instance that carries such an argument.
C13_ArgumentBoundsChecked ==
    (/\ ParseReturned
     /\ ArgsAreNumbers(call.args)
     /\ CountMatchesArity(call.name, call.args)
     /\ Len(call.args) > 0
     /\ ViolatesDialectBound(call.name, ArgValues(call.args)))
        => (~call.out.ok /\ call.out.error = "ArgumentOutOfRangeError")

-----------------------------------------------------------------------------
(* validate_model: the kind of the error                                    *)

ModelValidated == call.op = "validate_model"

\* The names of the large-object types of the fields of a list.
LargeObjectNamesIn(field_names) ==
    {call.model.fields[f].field_type.instance.name :
        f \in {g \in Range(field_names) : IsLargeObjectField(g)}}

\* The large-object types used by the indexes of type tpe or not of it.
NamesInIndexes(unique) ==
    UNION {LargeObjectNamesIn(call.model.indices[i].fields) :
              i \in {j \in DOMAIN call.model.indices :
                        (call.model.indices[j].tpe = "Unique") = unique}}

NamesInIdFields == LargeObjectNamesIn(call.model.id_fields)

\* C14: the error validate_model returns names the constraint that is
\* violated. A unique-index error, an index error and an id error name a
\* large-object type that a unique index, another index and the id fields
\* use; the kind that alone is violated is the kind reported; every error
\* carries the dialect name "MySQL".
C14_ErrorNamesTheConstraint ==
    ModelValidated =>
        /\ ~call.out.ok =>
              /\ call.out.connector_name = "MySQL"
              /\ \/ /\ call.out.error = "IncompatibleNativeTypeWithUniqueAttribute"
                    /\ call.out.native_type \in NamesInIndexes(TRUE)
                 \/ /\ call.out.error = "IncompatibleNativeTypeWithIndexAttribute"
                    /\ call.out.native_type \in NamesInIndexes(FALSE)
                 \/ /\ call.out.error = "IncompatibleNativeTypeWithIdAttribute"
                    /\ call.out.native_type \in NamesInIdFields
        /\ (NamesInIndexes(TRUE) # {} /\ NamesInIndexes(FALSE) = {}) =>
              (~call.out.ok /\ call.out.error = "IncompatibleNativeTypeWithUniqueAttribute")
        /\ (NamesInIndexes(FALSE) # {} /\ NamesInIndexes(TRUE) = {}) =>
              (~call.out.ok /\ call.out.error = "IncompatibleNativeTypeWithIndexAttribute")
        /\ (NamesInIdFields # {} /\ NamesInIndexes(TRUE) = {} /\ NamesInIndexes(FALSE) = {}) =>
              (~call.out.ok /\ call.out.error = "IncompatibleNativeTypeWithIdAttribute")

\* A model with a large-object field in an index that is not unique and in
\* the id fields, and a unique index without such a field.
C14_Witness ==
    /\ ModelValidated
    /\ Len(call.model.indices) = 2
    /\ call.model.indices[1].tpe = "Unique"
    /\ NamesInIndexes(TRUE) = {}
    /\ NamesInIndexes(FALSE) = {"MediumBlob"}
    /\ NamesInIdFields = {"MediumBlob"}
    /\ ~call.out.ok
    /\ call.out.error = "IncompatibleNativeTypeWithIndexAttribute"
    /\ call.out.native_type = "MediumBlob"

-----------------------------------------------------------------------------
(* render_column: AUTO_INCREMENT                                            *)

ColumnRendered == call.op = "render_column" /\ ~call.out.panic

HasToken(text, token) == \E i \in DOMAIN text : text[i] = token

\* A foreign key of the table of the next schema uses the column.
UsedByForeignKey(column) ==
    \E i \in DOMAIN Schemas.next.tables[1].foreign_keys :
        \E k \in DOMAIN Schemas.next.tables[1].foreign_keys[i].constrained_columns :
            Schemas.next.tables[1].foreign_keys[i].constrained_columns[k] = column.name

-----------------------------------------------------------------------------
(* sql_ddl::postgres                                                        *)

MaxVariants == 3
MaxIndexColumns == 2

\* The double quote character, as a token.
DoubleQuote == "dquote"

\* Display of StrLit: the text between single quotes, as it is.
StrLit(str) == <<"'">> \o str \o <<"'">>

\* Display of Ident: the text between double quotes.
Ident(str) == <<DoubleQuote>> \o str \o <<DoubleQuote>>

\* PostgresIdentifier::Simple and PostgresIdentifier::WithSchema.
Simple(ident) == [kind |-> "Simple", ident |-> ident]
WithSchema(schema_name, ident) ==
    [kind |-> "WithSchema", schema_name |-> schema_name, ident |-> ident]

\* Display of PostgresIdentifier.
PostgresIdentifier_fmt(identifier) ==
    IF identifier.kind = "Simple"
    THEN <<DoubleQuote>> \o identifier.ident \o <<DoubleQuote>>
    ELSE <<DoubleQuote>> \o identifier.schema_name \o <<DoubleQuote, ".", DoubleQuote>>
         \o identifier.ident \o <<DoubleQuote>>

\* A variant of CreateEnum_fmt that puts no space after the commas.
CreateEnum_fmt_tight(create_enum) ==
    <<"CREATE TYPE ">> \o PostgresIdentifier_fmt(create_enum.enum_name) \o <<" AS ENUM (">>
    \o Join([i \in DOMAIN create_enum.variants |-> StrLit(create_enum.variants[i])], <<",">>)
    \o <<")">>

\* Display of CreateEnum.
CreateEnum_fmt(create_enum) ==
    <<"CREATE TYPE ">> \o PostgresIdentifier_fmt(create_enum.enum_name) \o <<" AS ENUM (">>
    \o Join([i \in DOMAIN create_enum.variants |-> StrLit(create_enum.variants[i])], <<", ">>)
    \o <<")">>

\* A variant of CreateIndex_fmt that writes UNIQUE for every index.
CreateIndex_fmt_always_unique(create_index) ==
    <<"CREATE ">> \o <<"UNIQUE ">> \o <<"INDEX ">>
    \o PostgresIdentifier_fmt(create_index.index_name) \o <<" ON ">>
    \o PostgresIdentifier_fmt(create_index.table_reference) \o <<"(">>
    \o Join([i \in DOMAIN create_index.columns |-> Ident(create_index.columns[i])], <<", ">>)
    \o <<")">>

\* Display of CreateIndex.
CreateIndex_fmt(create_index) ==
    <<"CREATE ">> \o (IF create_index.is_unique THEN <<"UNIQUE ">> ELSE <<>>) \o <<"INDEX ">>
    \o PostgresIdentifier_fmt(create_index.index_name) \o <<" ON ">>
    \o PostgresIdentifier_fmt(create_index.table_reference) \o <<"(">>
    \o Join([i \in DOMAIN create_index.columns |-> Ident(create_index.columns[i])], <<", ">>)
    \o <<")">>

\* The names the statements are built from, those of the tests among them.
EnumIdentifiers ==
    {Simple(<<"m","y","E","n","u","m">>), Simple(<<"e">>),
     WithSchema(<<"p","u","b","l","i","c">>, <<"m","y","E","n","u","m">>),
     WithSchema(<<"s">>, <<"e">>)}
VariantNames == {<<"O","n","e">>, <<"T","w","o">>, <<"T","h","r","e","e">>, <<"i","t","'","s">>}
IndexIdentifiers ==
    {Simple(<<"m","e","o","w","_","i","d","x">>), WithSchema(<<"s">>, <<"i">>)}
TableIdentifiers ==
    {Simple(<<"C","a","t">>), WithSchema(<<"p","u","b","l","i","c">>, <<"C","a","t">>)}
IndexColumnNames == {<<"n","a","m","e">>, <<"a","g","e">>, <<"i","d">>}

\* A CreateEnum is written.
FmtCreateEnum ==
    /\ call = NoCall
    /\ \E enum_name \in EnumIdentifiers, variants \in SeqsUpTo(VariantNames, MaxVariants) :
          LET create_enum == [enum_name |-> enum_name, variants |-> variants]
          IN call' = [op |-> "CreateEnum", create_enum |-> create_enum,
                      out |-> CreateEnum_fmt(create_enum)]
    /\ UNCHANGED rollbackVars

\* A CreateIndex is written.
FmtCreateIndex ==
    /\ call = NoCall
    /\ \E index_name \in IndexIdentifiers, table_reference \in TableIdentifiers,
          is_unique \in BOOLEAN, columns \in SeqsUpTo(IndexColumnNames, MaxIndexColumns) :
          LET create_index == [index_name |-> index_name, is_unique |-> is_unique,
                               table_reference |-> table_reference, columns |-> columns]
          IN call' = [op |-> "CreateIndex", create_index |-> create_index,
                      out |-> CreateIndex_fmt(create_index)]
    /\ UNCHANGED rollbackVars

NextPostgres ==
    \/ FmtCreateEnum
    \/ FmtCreateIndex
    \/ Return

\* The statements of sql_ddl::postgres.
SpecPostgres == InitCalls /\ [][NextPostgres]_vars

\* The identifier as PostgreSQL writes it: "name", or "schema"."name".
QuotedIdentifier(identifier) ==
    IF identifier.kind = "Simple"
    THEN <<DoubleQuote>> \o identifier.ident \o <<DoubleQuote>>
    ELSE <<DoubleQuote>> \o identifier.schema_name \o <<DoubleQuote>> \o <<".">>
         \o <<DoubleQuote>> \o identifier.ident \o <<DoubleQuote>>

\* The part of a statement after the prefix and before its last token.
Inside(stmt, prefix) == SubSeq(stmt, Len(prefix) + 1, Len(stmt) - 1)

\* The items of a list written between parentheses: none for nothing,
\* else the pieces between the separators ", ".
ListItems(inner) == IF inner = <<>> THEN <<>> ELSE SplitOn(inner, ", ")

CreateEnumWritten == call.op = "CreateEnum"

\* C16: CreateEnum is written CREATE TYPE <enum name> AS ENUM (<variants>),
\* the name as "name" or "schema"."name", the variants in the order of the
\* list, each between single quotes, separated by ", ", and none for the
\* empty list.
C16_CreateEnumText ==
    CreateEnumWritten =>
        LET prefix == <<"CREATE TYPE ">> \o QuotedIdentifier(call.create_enum.enum_name)
                      \o <<" AS ENUM (">>
            variants == call.create_enum.variants
            items == ListItems(Inside(call.out, prefix))
        IN /\ StartsWith(call.out, prefix)
           /\ call.out[Len(call.out)] = ")"
           /\ Len(items) = Len(variants)
           /\ \A i \in DOMAIN variants :
                 /\ Len(items[i]) = Len(variants[i]) + 2
                 /\ items[i][1] = "'"
                 /\ items[i][Len(items[i])] = "'"
                 /\ SubSeq(items[i], 2, Len(items[i]) - 1) = variants[i]
           /\ variants = <<>> => Len(call.out) = Len(prefix) + 1

\* The enum of the test, One, Two, Three, under a name with a schema.
C16_Witness ==
    /\ CreateEnumWritten
    /\ call.create_enum.enum_name.kind = "WithSchema"
    /\ call.create_enum.variants = << <<"O","n","e">>, <<"T","w","o">>, <<"T","h","r","e","e">> >>
    /\ Len(ListItems(Inside(call.out, <<"CREATE TYPE ">>
                                      \o QuotedIdentifier(call.create_enum.enum_name)
                                      \o <<" AS ENUM (">>))) = 3

CreateIndexWritten == call.op = "CreateIndex"

\* C17: CreateIndex is written CREATE [UNIQUE ]INDEX <index name> ON
\* <table>(<columns>): UNIQUE exactly when is_unique, the columns in the
\* order of the list, each between double quotes, separated by ", ".
C17_CreateIndexText ==
    CreateIndexWritten =>
        LET create_index == call.create_index
            prefix == (IF create_index.is_unique THEN <<"CREATE ", "UNIQUE ", "INDEX ">>
                       ELSE <<"CREATE ", "INDEX ">>)
                      \o QuotedIdentifier(create_index.index_name) \o <<" ON ">>
                      \o QuotedIdentifier(create_index.table_reference) \o <<"(">>
            items == ListItems(Inside(call.out, prefix))
        IN /\ StartsWith(call.out, prefix)
           /\ HasToken(call.out, "UNIQUE ") <=> create_index.is_unique
           /\ call.out[Len(call.out)] = ")"
           /\ Len(items) = Len(create_index.columns)
           /\ \A i \in DOMAIN create_index.columns :
                 items[i] = <<DoubleQuote>> \o create_index.columns[i] \o <<DoubleQuote>>

\* The index of the test: unique, meow_idx on Cat(name, age).
C17_Witness ==
    /\ CreateIndexWritten
    /\ call.create_index.is_unique
    /\ call.create_index.index_name = Simple(<<"m","e","o","w","_","i","d","x">>)
    /\ call.create_index.table_reference = Simple(<<"C","a","t">>)
    /\ call.create_index.columns = << <<"n","a","m","e">>, <<"a","g","e">> >>
    /\ call.out[2] = "UNIQUE "
    /\ call.out[Len(call.out)] = ")"

-----------------------------------------------------------------------------
(* String literals in the generated SQL                                     *)

RECURSIVE QuotesDoubled(_)
\* The text with every single quote written twice.
QuotesDoubled(str) ==
    IF str = <<>> THEN <<>>
    ELSE (IF Head(str) = "'" THEN <<"'", "'">> ELSE <<Head(str)>>)
         \o QuotesDoubled(Tail(str))

\* The default of the rendered column is a string or enum value.
TextDefaultRendered ==
    /\ ColumnRendered
    /\ NextColumns[call.column].default # <<>>
    /\ NextColumns[call.column].default[1].kind = "VALUE"
    /\ NextColumns[call.column].default[1].value.type \in {"String", "Enum"}
    /\ NextColumns[call.column].family \in {"String", "Enum"}

RECURSIVE After(_, _)
\* The tokens of s after its first token t.
After(s, t) ==
    IF s = <<>> THEN <<>>
    ELSE IF Head(s) = t THEN Tail(s) ELSE After(Tail(s), t)

\* C18: every string literal of the generated SQL has each single quote of
\* its value doubled: the variants of CreateEnum, and the string and enum
\* defaults of render_default.
C18_QuotesDoubledInLiterals ==
    /\ CreateEnumWritten =>
           LET prefix == <<"CREATE TYPE ">> \o QuotedIdentifier(call.create_enum.enum_name)
                         \o <<" AS ENUM (">>
               variants == call.create_enum.variants
           IN Inside(call.out, prefix)
                  = Join([i \in DOMAIN variants |->
                             <<"'">> \o QuotesDoubled(variants[i]) \o <<"'">>], <<", ">>)
    /\ TextDefaultRendered =>
           StartsWith(After(call.out.text, " DEFAULT "),
                      <<"'">> \o QuotesDoubled(NextColumns[call.column].default[1].value.value)
                      \o <<"'">>)

-----------------------------------------------------------------------------
(* The registry of native types                                             *)

IntrospectReturned == call.op = "introspect_native_type"

\* C19: the names of the registry coincide. parse_native_type never reaches
\* its fallback arm for a registered name, introspect_native_type gives
\* every MySqlType a registered constructor name and never returns
\* NativeTypeNameUnknown, and no two registered constructors share a name.
C19_RegistryNamesCoincide ==
    /\ (ParseReturned /\ call.name \in ConstructorNames) =>
           (call.out.ok \/ call.out.error # "panic")
    /\ IntrospectReturned =>
           (call.out.ok /\ call.out.instance.name \in ConstructorNames)
    /\ \A i, j \in DOMAIN available_native_type_constructors :
           i # j => available_native_type_constructors[i].name
                        # available_native_type_constructors[j].name

\* The variant whose constructor name is not its own: DateTime, registered
\* as Datetime.
C19_Witness ==
    /\ IntrospectReturned
    /\ call.native_type.variant = "DateTime"
    /\ call.out.ok
    /\ call.out.instance.name = "Datetime"

-----------------------------------------------------------------------------
(* The steps MySQL can not express                                          *)

AlterTableCalled == call.op = "render_alter_table"

\* The change is one MySQL can not express: a column dropped and recreated,
\* or a column renamed (but where only the default changed and is dropped).
CanNotBeExpressed(change) ==
    \/ change.kind = "DropAndRecreateColumn"
    \/ /\ change.kind = "AlterColumn"
       /\ "Renaming" \in change.changes
       /\ ~(/\ change.changes = {"Default"}
            /\ NextColumns[change.column_index.next].default = <<>>)

\* C20: the steps MySQL can not express abort and return no statement:
\* render_alter_enum, render_redefine_tables, and render_alter_table on a
\* DropAndRecreateColumn or on an AlterColumn that renames the column;
\* render_create_enum and render_drop_enum return the empty list.
C20_InexpressibleStepsAbort ==
    /\ call.op \in {"render_alter_enum", "render_redefine_tables"} => call.out.panic
    /\ (/\ AlterTableCalled
        /\ \E i \in DOMAIN call.alter_table.changes :
              CanNotBeExpressed(call.alter_table.changes[i]))
           => call.out.panic
    /\ call.op \in {"render_create_enum", "render_drop_enum"} =>
           (~call.out.panic /\ call.out.stmts = <<>>)

\* An AlterColumn that reports a renaming along with a changed default.
C20_Witness ==
    /\ AlterTableCalled
    /\ Len(call.alter_table.changes) = 1
    /\ call.alter_table.changes[1].kind = "AlterColumn"
    /\ call.alter_table.changes[1].changes = {"Renaming", "Default"}
    /\ call.out.panic

-----------------------------------------------------------------------------
(* The rollback command next to other processes on the same table           *)

\* Another process ends the application of a migration: its record gets a
\* finished_at.
ConcurrentApplyFinishes ==
    /\ \E id \in DOMAIN history :
          /\ ~history[id].finished_at
          /\ history' = [history EXCEPT ![id].finished_at = TRUE]
    /\ UNCHANGED <<pc, input, listed, to_roll_back, calls, seen, result, runs, call>>

\* Another run of the command, which listed the record as one to roll back,
\* makes its call of mark_migration_rolled_back_by_id.
ConcurrentRollbackMarks ==
    /\ \E id \in DOMAIN history :
          /\ ~history[id].finished_at
          /\ ~history[id].rolled_back_at
          /\ history' = mark_migration_rolled_back_by_id(history, id)
    /\ UNCHANGED <<pc, input, listed, to_roll_back, calls, seen, result, runs, call>>

NextRollbackConcurrent ==
    \/ \E name \in MigrationNames : RbExecute(name)
    \/ RbMark
    \/ RbReturn
    \/ RbFinish
    \/ ConcurrentApplyFinishes
    \/ ConcurrentRollbackMarks

\* The command with other processes writing the table at any moment: no
\* lock is held.
SpecRollbackConcurrent == InitRollback /\ [][NextRollbackConcurrent]_vars

\* The ids of the records the listing gave as named, unfinished and not
\* rolled back, in the order of the listing.
PendingIds == [i \in DOMAIN migrations_to_roll_back(relevant_migrations(listed, input)) |->
                  migrations_to_roll_back(relevant_migrations(listed, input))[i].id]

\* C21: no lock is taken between list_migrations and the calls of
\* mark_migration_rolled_back_by_id. Whatever other processes do to the
\* records after the listing, a run that succeeds has called
\* mark_migration_rolled_back_by_id on every record it listed as pending,
\* also on one that was finished or rolled back in between.
C21_MarksWhatItListed ==
    (pc = "done" /\ result.ok) =>
        /\ calls = PendingIds
        /\ \A k \in DOMAIN calls : history[calls[k]].rolled_back_at

\* The two races in one run: a record that was finished when it was marked,
\* and a record another rollback had marked already.
C21_Witness ==
    /\ pc = "done" /\ result.ok
    /\ \E k, l \in DOMAIN calls :
          /\ seen[k].finished_at /\ ~listed[calls[k]].finished_at
          /\ seen[l].rolled_back_at /\ ~listed[calls[l]].rolled_back_at
          /\ k # l

-----------------------------------------------------------------------------
(* The rollback command run again                                           *)

\* Some record named as the input is unfinished, and every such record is
\* rolled back already.
OnlyRolledBackLeft ==
    /\ \E i \in NamedInput : ~listed[i].finished_at
    /\ \A i \in NamedInput : ~listed[i].finished_at => listed[i].rolled_back_at

\* The command starts again for the name of the run that has just succeeded.
RunsAgainAfterSuccess ==
    /\ pc = "idle" /\ runs >= 1 /\ result.ok
    /\ pc' # "idle" /\ input' = input

\* C25: the command is idempotent. When the only unfinished records of the
\* name are rolled back already, it succeeds and calls
\* mark_migration_rolled_back_by_id for no record; and a run for the name of
\* the run that has just succeeded finds no record to mark and goes on to
\* return success.
C25_Idempotent ==
    /\ []((pc = "done" /\ OnlyRolledBackLeft) =>
             (result.ok /\ calls = <<>> /\ history = listed))
    /\ [][RunsAgainAfterSuccess =>
             (pc' = "marking" /\ to_roll_back' = <<>> /\ calls' = <<>>)]_vars

\* A second run that succeeded without a call, on a history whose records
\* are all named as the input, one of them rolled back and unfinished.
C25_Witness ==
    /\ runs = 1 /\ pc = "done" /\ result.ok /\ calls = <<>>
    /\ OnlyRolledBackLeft
    /\ Len(listed) = 2
    /\ NamedInput = DOMAIN listed

-----------------------------------------------------------------------------
(* The rollback command on a persistence whose calls can fail               *)

\* list_migrations fails: with a connector error (the first ?), or with
\* the error of a database without migrations table, which map_err turns
\* into CoreError::Generic. execute returns before any other step.
RbListFails(name) ==
    /\ pc = "idle"
    /\ runs < MaxRuns
    /\ input' = name
    /\ listed' = <<>>
    /\ calls' = <<>>
    /\ seen' = <<>>
    /\ to_roll_back' = <<>>
    /\ \E error \in {"ConnectorError", "Generic"} :
          result' = [ok |-> FALSE, error |-> error, migration_name |-> name]
    /\ pc' = "done"
    /\ UNCHANGED <<history, runs, call>>

\* A variant of RbMarkFails that drops the error and goes on with the loop.
RbMarkFails_goes_on ==
    /\ pc = "marking"
    /\ to_roll_back # <<>>
    /\ calls' = Append(calls, Head(to_roll_back))
    /\ seen' = Append(seen, history[Head(to_roll_back)])
    /\ to_roll_back' = Tail(to_roll_back)
    /\ UNCHANGED <<history, pc, input, listed, result, runs, call>>

\* One iteration of the loop in which mark_migration_rolled_back_by_id
\* fails: the ? returns the error, the record is not marked.
RbMarkFails ==
    /\ pc = "marking"
    /\ to_roll_back # <<>>
    /\ calls' = Append(calls, Head(to_roll_back))
    /\ seen' = Append(seen, history[Head(to_roll_back)])
    /\ result' = [ok |-> FALSE, error |-> "ConnectorError", migration_name |-> input]
    /\ pc' = "done"
    /\ UNCHANGED <<history, input, listed, to_roll_back, runs, call>>

NextRollbackFailing ==
    \/ \E name \in MigrationNames : RbExecute(name)
    \/ \E name \in MigrationNames : RbListFails(name)
    \/ RbMark
    \/ RbMarkFails
    \/ RbReturn
    \/ RbFinish

SpecRollbackFailing == InitRollback /\ [][NextRollbackFailing]_vars

\* The k-th call of the run failed: the record is not marked after it.
CallFailed(k) == ~history[calls[k]].rolled_back_at

\* C26: the command is not atomic. A call of
\* mark_migration_rolled_back_by_id that fails is the last call of the run,
\* the run returns its error, the records marked before it stay marked and
\* those after it are not called; when list_migrations fails the run
\* returns an error, makes no call and leaves the table as it was.
C26_NotAtomic ==
    /\ [](pc = "done" =>
            /\ \A k \in DOMAIN calls :
                  IF CallFailed(k)
                  THEN /\ k = Len(calls)
                       /\ ~result.ok
                       /\ result.error = "ConnectorError"
                       /\ to_roll_back # <<>>
                       /\ Head(to_roll_back) = calls[k]
                  ELSE history[calls[k]].rolled_back_at
            /\ calls \o (IF calls # <<>> /\ CallFailed(Len(calls))
                         THEN Tail(to_roll_back) ELSE to_roll_back) = PendingIds
            /\ (result.error \in {"ConnectorError", "Generic"} /\ calls = <<>>) =>
                  to_roll_back = <<>>)
    /\ [][(pc = "idle" /\ pc' = "done" /\ result'.error \in {"ConnectorError", "Generic"})
             => (history' = history /\ calls' = <<>>)]_vars

\* The second of three calls failed: one record is marked, one is not, and
\* one was not called.
C26_Witness ==
    /\ pc = "done"
    /\ Len(PendingIds) = 3
    /\ Len(calls) = 2
    /\ ~CallFailed(1)
    /\ CallFailed(2)
    /\ result.error = "ConnectorError"
    /\ ~history[PendingIds[3]].rolled_back_at

-----------------------------------------------------------------------------
(* The clause of an AlterColumn                                             *)

\* The positions of the AlterColumn changes of a returned render_alter_table.
AlteredColumns ==
    IF AlterTableReturned
    THEN {i \in DOMAIN call.alter_table.changes :
             call.alter_table.changes[i].kind = "AlterColumn"}
    ELSE {}

\* The clause of the i-th change, and the two columns of the change.
ClauseOf(i) == ClausesOf(call.out.stmts[1])[i]
NextColumnOf(i) == NextColumns[call.alter_table.changes[i].column_index.next]
PreviousColumnOf(i) == PreviousColumns[call.alter_table.changes[i].column_index.previous]

\* Only the default changed, and the next column has none.
OnlyDefaultDropped(i) ==
    /\ call.alter_table.changes[i].changes = {"Default"}
    /\ NextColumnOf(i).default = <<>>

\* The first token of the type of a family without full_data_type.
FamilyTypeToken(family) ==
    CASE family = "Int" -> "INT"
      [] family = "String" -> "VARCHAR"
      [] family = "DateTime" -> "DATETIME(3)"
      [] family = "Json" -> "JSON"
      [] family = "Binary" -> "LONGBLOB"
      [] family = "Enum" -> "ENUM("
      [] OTHER -> "?"

\* The clause is a MODIFY that restates the type, the nullability and the
\* autoincrement of the column, and a default when the column has a value
\* or now() as its default.
RestatesColumn(clause, column) ==
    LET head == <<"MODIFY ">> \o Quoted(column.name) \o <<" ">>
    IN /\ StartsWith(clause, head)
       /\ Len(clause) > Len(head)
       /\ IF column.full_data_type # <<>>
          THEN StartsWith(SubSeq(clause, Len(head) + 1, Len(clause)), column.full_data_type)
          ELSE clause[Len(head) + 1] = FamilyTypeToken(column.family)
       /\ HasToken(clause, " NOT NULL") <=> column.arity = "Required"
       /\ HasToken(clause, " AUTO_INCREMENT") <=> column.auto_increment
       /\ column.default = <<>> => ~HasToken(clause, " DEFAULT ")
       /\ (column.default # <<>> /\ column.default[1].kind \in {"VALUE", "NOW"})
             => HasToken(clause, " DEFAULT ")
       /\ ~HasToken(clause, "ALTER COLUMN ")

\* C22: for an AlterColumn the renderer takes the cheapest statement. When
\* only the default changed and the next column has no default the clause
\* is ALTER COLUMN <column> DROP DEFAULT; in every other case without a
\* renaming it is one MODIFY <column> that restates the type, nullability,
\* default and autoincrement of the next column.
C22_CheapestAlterColumn ==
    \A i \in AlteredColumns :
        IF OnlyDefaultDropped(i)
        THEN ClauseOf(i) = <<"ALTER COLUMN ">> \o Quoted(NextColumnOf(i).name)
                           \o <<" DROP DEFAULT">>
        ELSE RestatesColumn(ClauseOf(i), NextColumnOf(i))

\* A drop of the default next to a full rewrite, in one ALTER TABLE.
C22_Witness ==
    /\ AlterTableReturned
    /\ \E i, j \in AlteredColumns :
          /\ OnlyDefaultDropped(i)
          /\ ClauseOf(i)[1] = "ALTER COLUMN "
          /\ ~OnlyDefaultDropped(j)
          /\ "Default" \in call.alter_table.changes[j].changes
          /\ ClauseOf(j)[1] = "MODIFY "

-----------------------------------------------------------------------------
(* The default of a MODIFY                                                  *)

\* The positions of the AlterColumn changes rendered as a MODIFY.
ModifiedColumns == {i \in AlteredColumns : ~OnlyDefaultDropped(i)}

DBGenerated(column) ==
    column.default # <<>> /\ column.default[1].kind = "DBGENERATED"

\* Both columns have a dbgenerated() default, the previous with an
\* expression and the next without.
ExpressionOnlyOnPrevious(i) ==
    /\ DBGenerated(PreviousColumnOf(i)) /\ DBGenerated(NextColumnOf(i))
    /\ NextColumnOf(i).default[1].value = <<>>
    /\ PreviousColumnOf(i).default[1].value # <<>>

\* What a clause writes after DEFAULT, nothing when it has no DEFAULT.
DefaultWritten(clause) ==
    LET rest == After(clause, " DEFAULT ")
    IN IF rest # <<>> /\ rest[Len(rest)] = " AUTO_INCREMENT"
       THEN SubSeq(rest, 1, Len(rest) - 1) ELSE rest

\* The text of the default of a column of the given family.
DefaultText(default, family) ==
    IF default = <<>> THEN <<>> ELSE render_default(default[1], family).text

\* C23: a database-generated default is carried through a MODIFY. When both
\* columns have a DBGENERATED default and only the previous one has an
\* expression, the MODIFY writes the previous expression as its DEFAULT; in
\* every other case it writes the default of the next column; and a MODIFY
\* from a non-empty DBGENERATED default to a DBGENERATED default is never
\* without a DEFAULT.
C23_GeneratedDefaultCarried ==
    \A i \in ModifiedColumns :
        /\ ExpressionOnlyOnPrevious(i)
              => DefaultWritten(ClauseOf(i)) = PreviousColumnOf(i).default[1].value
        /\ ~ExpressionOnlyOnPrevious(i)
              => DefaultWritten(ClauseOf(i))
                    = DefaultText(NextColumnOf(i).default, NextColumnOf(i).family)
        /\ (/\ DBGenerated(PreviousColumnOf(i))
            /\ PreviousColumnOf(i).default[1].value # <<>>
            /\ DBGenerated(NextColumnOf(i)))
              => HasToken(ClauseOf(i), " DEFAULT ")

\* The expression rand() of the previous column is written for a next
\* column whose dbgenerated() is empty.
C23_Witness ==
    /\ AlterTableReturned
    /\ \E i \in ModifiedColumns :
          /\ ExpressionOnlyOnPrevious(i)
          /\ NextColumnOf(i).default[1].value = <<>>
          /\ DefaultWritten(ClauseOf(i)) = <<"r","a","n","d","(",")">>

-----------------------------------------------------------------------------
(* The default of a column definition                                       *)

\* C24: render_column writes a DEFAULT exactly when the column has a
\* default, the kind of the default is neither DBGENERATED nor SEQUENCE and
\* the family of the column is neither Json nor Binary; a Json or Binary
\* column is written without a DEFAULT whatever its default is.
C24_DefaultSuppressed ==
    ColumnRendered =>
        /\ HasToken(call.out.text, " DEFAULT ")
              <=> (/\ NextColumns[call.column].default # <<>>
                   /\ NextColumns[call.column].default[1].kind # "DBGENERATED"
                   /\ NextColumns[call.column].default[1].kind # "SEQUENCE"
                   /\ NextColumns[call.column].family \notin {"Json", "Binary"})
        /\ NextColumns[call.column].family \in {"Json", "Binary"}
              => ~HasToken(call.out.text, " DEFAULT ")

\* A Json column whose default is a value is defined without a DEFAULT.
C24_Witness ==
    /\ ColumnRendered
    /\ NextColumns[call.column].family = "Json"
    /\ NextColumns[call.column].default # <<>>
    /\ NextColumns[call.column].default[1].kind = "VALUE"
    /\ ~HasToken(call.out.text, " DEFAULT ")
    /\ HasToken(call.out.text, "JSON")

-----------------------------------------------------------------------------
(* AUTO_INCREMENT in a MODIFY                                               *)

\* C28: the MODIFY of an AlterColumn has AUTO_INCREMENT under the condition
\* of render_column: the next column is autoincrement and no foreign key
\* uses it.
C28_ModifyAgreesWithColumn ==
    \A i \in ModifiedColumns :
        HasToken(ClauseOf(i), " AUTO_INCREMENT")
            <=> (NextColumnOf(i).auto_increment /\ ~UsedByForeignKey(NextColumnOf(i)))

-----------------------------------------------------------------------------
(* The error that is reported when several tests fail                       *)

\* An argument of the validated field is out of its bounds.
ArgumentOutOfBounds ==
    \/ ValidatedDecimal /\ (Scale > Precision \/ Precision > 65 \/ Scale > 30)
    \/ ValidatedLength("Bit") /\ Length \notin 1..64
    \/ ValidatedLength("Char") /\ Length > 255
    \/ ValidatedLength("VarChar") /\ Length > 65535

\* The validated model has an index on a large-object field.
IndexOnLargeObject ==
    \E i \in DOMAIN call.model.indices :
        \E f \in Range(call.model.indices[i].fields) : IsLargeObjectField(f)

\* C27: validate_field reports one error, chosen by a fixed precedence:
\* the scale larger than the precision before the precision out of range
\* before the scale out of range; an error of the bounds of an argument
\* before an error of the key; and the error of the unique attribute rather
\* than the one of the id attribute for a large-object field that is both.
\* validate_model reports an index on a large-object field before an id
\* field of such a type.
C27_ErrorPrecedence ==
    /\ ValidatedDecimal =>
          /\ Scale > Precision
                => call.out = new_scale_larger_than_precision_error(
                                  call.field.field_type.instance.name, "MySQL")
          /\ (Scale <= Precision /\ Precision > 65)
                => call.out = new_argument_m_out_of_range_error(
                                  "Precision can range from 1 to 65.",
                                  call.field.field_type.instance.name, "MySQL")
          /\ (Scale <= Precision /\ Precision <= 65 /\ Scale > 30)
                => call.out = new_argument_m_out_of_range_error(
                                  "Scale can range from 0 to 30.",
                                  call.field.field_type.instance.name, "MySQL")
    /\ (ValidatedNativeField /\ ArgumentOutOfBounds)
          => (/\ ~call.out.ok
              /\ call.out.error \in {"ScaleLargerThanPrecisionError",
                                     "ArgumentOutOfRangeError"})
    /\ (/\ ValidatedNativeField
        /\ call.field.field_type.instance.name \in LargeObjectTypes
        /\ call.field.is_unique /\ call.field.is_id)
          => (/\ ~call.out.ok
              /\ call.out.error = "IncompatibleNativeTypeWithUniqueAttribute")
    /\ (call.op = "validate_model" /\ IndexOnLargeObject)
          => (/\ ~call.out.ok
              /\ call.out.error \in {"IncompatibleNativeTypeWithUniqueAttribute",
                                     "IncompatibleNativeTypeWithIndexAttribute"})

\* All three tests of a Decimal fail on a unique id field, and the scale
\* larger than the precision is the error.
C27_Witness ==
    /\ ValidatedDecimal
    /\ Precision > 65 /\ Scale > 30 /\ Scale > Precision
    /\ call.field.is_unique /\ call.field.is_id
    /\ call.out.error = "ScaleLargerThanPrecisionError"

====
